---- MODULE Spec2Model ----
(***************************************************************************)
(* Model of the macaudit diagnostic-check engine:                          *)
(*   - BaseCheck.execute        (checks/base.py)  the applicability gate   *)
(*   - _run_checks              (main.py)         the scan loop            *)
(*   - calculate_health_score   (checks/base.py)  the health scorer        *)
(*   - compute_diff             (diff.py)         the snapshot diff        *)
(*   - cli                      (main.py)         flags, output, exit code *)
(*   - run_fix_session          (fixer/runner.py) the fix session          *)
(*   - run_*_fix                (fixer/executor.py) the four executors     *)
(*   - save_scan, prune_history (history.py)      the scan history         *)
(*   - _fetch_software_updates  (checks/system.py) the shared update query *)
(* The specifications share the variables; each leaves the variables of    *)
(* the other components at their idle value.                               *)
(*   SpecGate     : one execute() call, statement by statement             *)
(*   Spec         : one _run_checks() call, silent or narrated             *)
(*   SpecHang     : _run_checks() with probes that never return, fair      *)
(*   SpecScore    : calculate_health_score over drawn verdict lists        *)
(*   SpecDiff     : compute_diff over drawn pairs of payloads              *)
(*   SpecDispatch : one _dispatch() call on a drawn verdict                *)
(*   SpecFix      : one run_fix_session() call, interactive or auto        *)
(*   SpecCli      : one run of cli(), the fix session included             *)
(*   SpecHistory  : save_scan and load_previous_scan calls over time       *)
(*   SpecUpdates  : the two callers of _fetch_software_updates in one scan *)
(***************************************************************************)
EXTENDS Integers, Sequences, FiniteSets, TLC

VARIABLES
    host,           \* system_info: MACOS_VERSION, IS_APPLE_SILICON, tools on PATH
    check,          \* SpecGate: the check whose execute() is running
    gate,           \* SpecGate: the activation record of execute()
    checks,         \* Spec: the list handed to _run_checks
    quiet,          \* Spec: quiet or as_json
    pc,             \* Spec: position of the coordinator (main thread)
    futures,        \* Spec: per index, the state of the submitted future
    results,        \* Spec: the results list
    next_to_print,  \* Spec: the flush cursor (0-based, as in the source)
    completed,      \* Spec: ScanNarrator.completed
    printed,        \* Spec: verdicts handed to narrator.print_result, in order
    yield_order,    \* Spec: the indices in the order as_completed yielded them
    returned,       \* Spec: the value _run_checks returned
    score_checks,   \* SpecScore: the list handed to calculate_health_score
    score,          \* SpecScore: the value it returned last
    first_score,    \* SpecScore: the value it returned for the first ordering
    score_pc,       \* SpecScore: input, scored, reordered or rescored
    current,        \* SpecDiff: the just-completed scan payload
    previous,       \* SpecDiff: the most recent historical payload
    diff,           \* SpecDiff: the value compute_diff returned
    opts,           \* SpecCli: the flags of the command line
    cli,            \* SpecCli: position of cli() and the exit code of the process
    verdicts,       \* SpecCli, SpecFix: the results of the scan
    session,        \* SpecFix: the activation record of run_fix_session
    session_log,    \* SpecFix: what the session showed, asked and ran, in order
    hist,           \* SpecHistory: the history directory, the clock, the saves made
    updates         \* SpecUpdates: the cache of _fetch_software_updates and its callers

gateVars  == <<host, check, gate>>
scanVars  == <<checks, quiet, pc, futures, results, next_to_print, completed,
               printed, yield_order, returned>>
scoreVars == <<score_checks, score, first_score, score_pc>>
diffVars  == <<current, previous, diff>>
cliVars   == <<opts, cli, verdicts, session, session_log>>
vars      == <<host, check, gate, checks, quiet, pc, futures, results,
               next_to_print, completed, printed, yield_order, returned, score_checks,
               score, first_score, score_pc, current, previous, diff,
               opts, cli, verdicts, session, session_log, hist, updates>>

(***************************************************************************)
(* Bounds of the model.                                                    *)
(***************************************************************************)
MaxChecks == 3

\* SpecScore: lists over every status and category up to MaxScoreLen, lists
\* over the deducting verdicts up to MaxHeavyLen, one verdict repeated up to
\* MaxRepeat times.
MaxScoreLen == 2

MaxHeavyLen == 8

MaxRepeat == 20

\* SpecDiff: the payloads list checks c1 .. c<NumDiffIds>.
NumDiffIds == 3

(***************************************************************************)
(* Values.                                                                 *)
(***************************************************************************)
\* Python's None
None == [none |-> TRUE]

Statuses == {"pass", "warning", "critical", "info", "skip", "error"}

FixLevels == {"auto", "auto_sudo", "guided", "instructions", "none"}

\* Exception classes a probe body raises, and the ones `except Exception` catches.
ExceptionSubclasses == {"Exception", "RuntimeError", "ValueError", "TimeoutExpired"}

\* a < b on Python tuples (major, minor): lexicographic.
TupleLess(a, b) == a[1] < b[1] \/ (a[1] = b[1] /\ a[2] < b[2])

\* f-strings are kept as format plus arguments, so that "the message contains X"
\* is a question about the arguments.
Msg(fmt, args) == [fmt |-> fmt, args |-> args]

ProbeMessage == Msg("probe message", <<>>)

(***************************************************************************)
(* BaseCheck._result / _skip / _error                                      *)
(***************************************************************************)
_result(c, status, message) ==
    [id        |-> c.id,
     category  |-> c.category,
     status    |-> status,
     message   |-> message,
     fix_level |-> c.fix_level]

_skip(c, reason) == _result(c, "skip", reason)

_error(c, message) == _result(c, "error", message)

\* BaseCheck.has_tool: shutil.which(tool) is not None
has_tool(h, tool) == tool \in h.tools

(***************************************************************************)
(* fixer/runner.py: which verdicts the fix session offers.                 *)
(***************************************************************************)
_FIXABLE_STATUSES == {"warning", "critical", "error", "info"}

_FIXABLE_LEVELS == {"auto", "auto_sudo", "guided", "instructions"}

\* the filter of _get_fixable
fixable(r) == r.status \in _FIXABLE_STATUSES /\ r.fix_level \in _FIXABLE_LEVELS

(***************************************************************************)
(* BaseCheck.execute, one operator per statement.  The activation record   *)
(* g carries the position, the predicates evaluated so far, whether run()  *)
(* was invoked, whether the safety net caught a fault, and the outcome.    *)
(***************************************************************************)
Pending == [kind |-> "pending"]

Returned(v) == [kind |-> "verdict", verdict |-> v]

Raised(cls, text) == [kind |-> "exception", cls |-> cls, text |-> text]

execute_entry ==
    [pc |-> "version", evaluated |-> <<>>, ran |-> FALSE, caught |-> FALSE,
     outcome |-> Pending]

\* Mutant of execute_version: the skip verdict is built but not returned, so the
\* tool gate runs next.
execute_version_falls_through(c, h, g) ==
    IF TupleLess(h.macos, c.min_macos)
    THEN [g EXCEPT !.pc = "tool",
                   !.evaluated = Append(@, "version"),
                   !.outcome = Returned(_skip(c, Msg("Requires macOS {}.{}+", c.min_macos)))]
    ELSE [g EXCEPT !.pc = "tool", !.evaluated = Append(@, "version")]

\* if MACOS_VERSION < self.min_macos: return self._skip(...)
execute_version(c, h, g) ==
    IF TupleLess(h.macos, c.min_macos)
    THEN [g EXCEPT !.pc = "done",
                   !.evaluated = Append(@, "version"),
                   !.outcome = Returned(_skip(c, Msg("Requires macOS {}.{}+", c.min_macos)))]
    ELSE [g EXCEPT !.pc = "tool", !.evaluated = Append(@, "version")]

\* if self.requires_tool and not self.has_tool(self.requires_tool): return self._skip(...)
execute_tool(c, h, g) ==
    IF c.requires_tool # "" /\ ~has_tool(h, c.requires_tool)
    THEN [g EXCEPT !.pc = "done",
                   !.evaluated = Append(@, "tool"),
                   !.outcome = Returned(_skip(c, Msg("{} not installed", <<c.requires_tool>>)))]
    ELSE [g EXCEPT !.pc = "arch", !.evaluated = Append(@, "tool")]

\* if not self.apple_silicon_compatible and IS_APPLE_SILICON: return self._skip(...)
execute_arch(c, h, g) ==
    IF ~c.apple_silicon_compatible /\ h.silicon
    THEN [g EXCEPT !.pc = "done",
                   !.evaluated = Append(@, "arch"),
                   !.outcome = Returned(_skip(c, Msg("Not compatible with Apple Silicon", <<>>)))]
    ELSE [g EXCEPT !.pc = "run", !.evaluated = Append(@, "arch")]

\* Mutant of execute_run: the handler is `except subprocess.TimeoutExpired`, any
\* other fault leaves execute().
execute_run_narrow_except(c, h, g) ==
    IF c.probe.kind = "return"
    THEN [g EXCEPT !.pc = "done", !.ran = TRUE,
                   !.outcome = Returned(_result(c, c.probe.status, ProbeMessage))]
    ELSE IF c.probe.cls = "TimeoutExpired"
         THEN [g EXCEPT !.pc = "done", !.ran = TRUE, !.caught = TRUE,
                        !.outcome = Returned(_error(c,
                            Msg("Unexpected error in {}: {}", <<c.id, c.probe.text>>)))]
         ELSE [g EXCEPT !.pc = "done", !.ran = TRUE,
                        !.outcome = Raised(c.probe.cls, c.probe.text)]

\* Mutant of execute_run: `return self.run()` without the try/except around it.
execute_run_no_try(c, h, g) ==
    IF c.probe.kind = "return"
    THEN [g EXCEPT !.pc = "done", !.ran = TRUE,
                   !.outcome = Returned(_result(c, c.probe.status, ProbeMessage))]
    ELSE [g EXCEPT !.pc = "done", !.ran = TRUE,
                   !.outcome = Raised(c.probe.cls, c.probe.text)]

\* try: return self.run()   except Exception as e: return self._error(...)
execute_run(c, h, g) ==
    IF c.probe.kind = "return"
    THEN [g EXCEPT !.pc = "done", !.ran = TRUE,
                   !.outcome = Returned(_result(c, c.probe.status, ProbeMessage))]
    ELSE IF c.probe.cls \in ExceptionSubclasses
         THEN [g EXCEPT !.pc = "done", !.ran = TRUE, !.caught = TRUE,
                        !.outcome = Returned(_error(c,
                            Msg("Unexpected error in {}: {}", <<c.id, c.probe.text>>)))]
         ELSE [g EXCEPT !.pc = "done", !.ran = TRUE,
                        !.outcome = Raised(c.probe.cls, c.probe.text)]

execute_step(c, h, g) ==
    CASE g.pc = "version" -> execute_version(c, h, g)
      [] g.pc = "tool"    -> execute_tool(c, h, g)
      [] g.pc = "arch"    -> execute_arch(c, h, g)
      [] g.pc = "run"     -> execute_run(c, h, g)
      [] OTHER            -> g

\* The whole call: at most four statements run.
execute_call(c, h) ==
    execute_step(c, h, execute_step(c, h, execute_step(c, h,
        execute_step(c, h, execute_entry))))

execute(c, h) == execute_call(c, h).outcome

\* The call reaches `return self.run()` and the probe body never returns: no
\* statement of execute() bounds the call, so execute() does not return either.
execute_hangs(c, h) ==
    LET g == execute_step(c, h, execute_step(c, h, execute_step(c, h, execute_entry)))
    IN  g.pc = "run" /\ c.probe.kind = "hang"

(***************************************************************************)
(* Inputs.                                                                 *)
(***************************************************************************)
Hosts ==
    [macos : {<<12, 6>>, <<14, 2>>}, silicon : BOOLEAN, tools : {{}, {"brew"}}]

Probes ==
    [kind : {"return"}, status : Statuses]
    \cup [kind : {"raise"}, cls : {"RuntimeError", "TimeoutExpired"}, text : {"boom"}]

\* requires_tool = "" stands for None (both are falsy in the gate's test).
GateChecks ==
    [id : {"always"}, category : {"system", "disk"}, fix_level : FixLevels,
     min_macos : {<<13, 0>>, <<14, 4>>}, requires_tool : {"", "brew"},
     apple_silicon_compatible : BOOLEAN, probe : Probes]

NoCheck == [id |-> "none"]

IdleGate == /\ check = NoCheck
            /\ gate = [pc |-> "idle"]

IdleScan == /\ checks = <<>>
            /\ quiet = TRUE
            /\ pc = "idle"
            /\ futures = <<>>
            /\ results = <<>>
            /\ next_to_print = 0
            /\ completed = 0
            /\ printed = <<>>
            /\ yield_order = <<>>
            /\ returned = None

IdleScore == /\ score_checks = <<>>
             /\ score = None
             /\ first_score = None
             /\ score_pc = "idle"

IdleDiff == /\ current = None
            /\ previous = None
            /\ diff = [called |-> FALSE]

IdleHist == hist = [files |-> {}]

IdleUpdates == updates = [runs |-> 0]

IdleCli == /\ opts = None
           /\ cli = [pc |-> "idle"]
           /\ verdicts = <<>>
           /\ session = [pc |-> "idle"]
           /\ session_log = <<>>

(***************************************************************************)
(* SpecGate: one call of execute(), statement by statement.                *)
(***************************************************************************)
InitGate ==
    /\ host \in Hosts
    /\ check \in GateChecks
    /\ gate = execute_entry
    /\ IdleScan /\ IdleScore /\ IdleDiff /\ IdleCli /\ IdleHist /\ IdleUpdates

GateVersion ==
    /\ gate.pc = "version"
    /\ gate' = execute_version(check, host, gate)
    /\ UNCHANGED <<host, check, scanVars, scoreVars, diffVars, cliVars, hist, updates>>

GateTool ==
    /\ gate.pc = "tool"
    /\ gate' = execute_tool(check, host, gate)
    /\ UNCHANGED <<host, check, scanVars, scoreVars, diffVars, cliVars, hist, updates>>

GateArch ==
    /\ gate.pc = "arch"
    /\ gate' = execute_arch(check, host, gate)
    /\ UNCHANGED <<host, check, scanVars, scoreVars, diffVars, cliVars, hist, updates>>

GateRun ==
    /\ gate.pc = "run"
    /\ gate' = execute_run(check, host, gate)
    /\ UNCHANGED <<host, check, scanVars, scoreVars, diffVars, cliVars, hist, updates>>

NextGate == GateVersion \/ GateTool \/ GateArch \/ GateRun

SpecGate == InitGate /\ [][NextGate]_vars

(***************************************************************************)
(* Spec: one call of _run_checks(checks, quiet, as_json).                  *)
(* Silent mode is the list comprehension, one execute() per step.  In      *)
(* narrated mode the main thread submits every check to the pool, then     *)
(* iterates as_completed; pool workers take the submitted calls in FIFO    *)
(* order and run execute() concurrently with the main thread.              *)
(***************************************************************************)
\* ThreadPoolExecutor(max_workers=8)
max_workers == 8

ScanHost == [macos |-> <<14, 2>>, silicon |-> TRUE, tools |-> {}]

\* The checks of a scan: a healthy one, a critical finding with an automatic
\* fix, a probe that raises, and one whose required tool is missing.
ScanTemplates ==
    { [category |-> "system", fix_level |-> "none", min_macos |-> <<13, 0>>,
       requires_tool |-> "", apple_silicon_compatible |-> TRUE,
       probe |-> [kind |-> "return", status |-> "pass"]],
      [category |-> "security", fix_level |-> "auto", min_macos |-> <<13, 0>>,
       requires_tool |-> "", apple_silicon_compatible |-> TRUE,
       probe |-> [kind |-> "return", status |-> "critical"]],
      [category |-> "disk", fix_level |-> "none", min_macos |-> <<13, 0>>,
       requires_tool |-> "", apple_silicon_compatible |-> TRUE,
       probe |-> [kind |-> "raise", cls |-> "RuntimeError", text |-> "boom"]],
      [category |-> "homebrew", fix_level |-> "auto", min_macos |-> <<13, 0>>,
       requires_tool |-> "brew", apple_silicon_compatible |-> TRUE,
       probe |-> [kind |-> "return", status |-> "warning"]] }

\* Check ids are unique within a scan.
CheckId(i) == <<"c1", "c2", "c3", "c4", "c5", "c6">>[i]

WithId(t, i) ==
    [id |-> CheckId(i), category |-> t.category, fix_level |-> t.fix_level,
     min_macos |-> t.min_macos, requires_tool |-> t.requires_tool,
     apple_silicon_compatible |-> t.apple_silicon_compatible, probe |-> t.probe]

ScanInputs ==
    UNION { { [i \in 1..n |-> WithId(ts[i], i)] : ts \in [1..n -> ScanTemplates] }
            : n \in 0..MaxChecks }

InitScan ==
    /\ host = ScanHost
    /\ checks \in ScanInputs
    /\ quiet \in BOOLEAN
    /\ pc = "start"
    /\ futures = <<>>
    /\ results = <<>>
    /\ next_to_print = 0
    /\ completed = 0
    /\ printed = <<>>
    /\ yield_order = <<>>
    /\ returned = None
    /\ IdleGate /\ IdleScore /\ IdleDiff /\ IdleCli /\ IdleHist /\ IdleUpdates

\* Mutant of StoreResult: the slot index is off by one and wraps around.
StoreResultShifted(res, idx, v) ==
    [res EXCEPT ![((idx + 1) % Len(res)) + 1] = v]

\* Mutant of StoreResult: the verdict is stored at the first free slot, that
\* is in completion order.
StoreResultInCompletionOrder(res, idx, v) ==
    LET free == CHOOSE k \in 1..Len(res) :
                    res[k] = None /\ \A j \in 1..(k - 1) : res[j] # None
    IN  [res EXCEPT ![free] = v]

\* results[idx] = future.result()        (idx is 0-based)
StoreResult(res, idx, v) == [res EXCEPT ![idx + 1] = v]

\* Mutant of FlushCondition: the cursor is not compared with the slot, any
\* filled slot lets the flush run.
FlushConditionAnyFilled(res, ntp) ==
    ntp < Len(res) /\ \E k \in 1..Len(res) : k > ntp /\ res[k] # None

\* while next_to_print < len(results) and results[next_to_print] is not None
FlushCondition(res, ntp) == ntp < Len(res) /\ res[ntp + 1] # None

\* Mutant of increment: the display is refreshed, the completion not counted.
increment_refresh_only(n) == n

\* ScanNarrator.increment: self.completed += 1, then the live display is
\* updated from the new count
increment(n) == n + 1

\* if quiet or as_json: ...  else: results = [None] * len(checks); enter the
\* narrator and the pool
Start ==
    /\ pc = "start"
    /\ IF quiet
       THEN /\ pc' = "silent"
            /\ UNCHANGED results
       ELSE /\ results' = [i \in 1..Len(checks) |-> None]
            /\ pc' = IF Len(checks) = 0 THEN "wait" ELSE "submit"
    /\ UNCHANGED <<gateVars, checks, quiet, futures, next_to_print, completed,
                   printed, yield_order, returned, scoreVars, diffVars, cliVars, hist, updates>>

\* return [check.execute() for check in checks]: one element
SilentExecute ==
    /\ pc = "silent"
    /\ Len(results) < Len(checks)
    /\ ~execute_hangs(checks[Len(results) + 1], host)
    /\ LET o == execute(checks[Len(results) + 1], host)
       IN  IF o.kind = "verdict"
           THEN /\ results' = Append(results, o.verdict)
                /\ pc' = pc
           ELSE /\ pc' = "raised"
                /\ UNCHANGED results
    /\ UNCHANGED <<gateVars, checks, quiet, futures, next_to_print, completed,
                   printed, yield_order, returned, scoreVars, diffVars, cliVars, hist, updates>>

\* return [...]: the comprehension is exhausted
SilentReturn ==
    /\ pc = "silent"
    /\ Len(results) = Len(checks)
    /\ returned' = results
    /\ pc' = "done"
    /\ UNCHANGED <<gateVars, checks, quiet, futures, results, next_to_print,
                   completed, printed, yield_order, scoreVars, diffVars, cliVars, hist, updates>>

\* The value of [check.execute() for check in checks]: the verdicts of the
\* checks executed one after the other on the calling thread.
RECURSIVE sequential_run(_, _)
sequential_run(cs, h) ==
    IF cs = <<>> THEN <<>>
    ELSE Append(sequential_run(SubSeq(cs, 1, Len(cs) - 1), h),
                execute(cs[Len(cs)], h).verdict)

\* pool.submit(check.execute) for i, check in enumerate(checks)
Submit ==
    /\ pc = "submit"
    /\ Len(futures) < Len(checks)
    /\ futures' = Append(futures, [state |-> "queued", outcome |-> Pending])
    /\ pc' = IF Len(futures) + 1 = Len(checks) THEN "wait" ELSE "submit"
    /\ UNCHANGED <<gateVars, checks, quiet, results, next_to_print, completed,
                   printed, yield_order, returned, scoreVars, diffVars, cliVars, hist, updates>>

\* a pool worker takes the oldest queued call, while fewer than max_workers run
WorkerStart(i) ==
    /\ futures[i].state = "queued"
    /\ \A j \in 1..(i - 1) : futures[j].state # "queued"
    /\ Cardinality({j \in DOMAIN futures : futures[j].state = "running"}) < max_workers
    /\ futures' = [futures EXCEPT ![i].state = "running"]
    /\ UNCHANGED <<gateVars, checks, quiet, pc, results, next_to_print, completed,
                   printed, yield_order, returned, scoreVars, diffVars, cliVars, hist, updates>>

\* the worker's check.execute() ends and sets the future
WorkerFinish(i) ==
    /\ futures[i].state = "running"
    /\ ~execute_hangs(checks[i], host)
    /\ futures' = [futures EXCEPT ![i] =
                      [state |-> "finished", outcome |-> execute(checks[i], host)]]
    /\ UNCHANGED <<gateVars, checks, quiet, pc, results, next_to_print, completed,
                   printed, yield_order, returned, scoreVars, diffVars, cliVars, hist, updates>>

\* for future in as_completed(...): idx = future_to_idx[future];
\* results[idx] = future.result(); narrator.increment()
AsCompleted(i) ==
    /\ pc = "wait"
    /\ futures[i].state = "finished"
    /\ futures' = [futures EXCEPT ![i].state = "yielded"]
    /\ yield_order' = Append(yield_order, i - 1)
    /\ IF futures[i].outcome.kind = "verdict"
       THEN /\ results' = StoreResult(results, i - 1, futures[i].outcome.verdict)
            /\ completed' = increment(completed)
            /\ pc' = "flush"
       ELSE /\ pc' = "raised"
            /\ UNCHANGED <<results, completed>>
    /\ UNCHANGED <<gateVars, checks, quiet, next_to_print, printed, returned,
                   scoreVars, diffVars, cliVars, hist, updates>>

\* the body of the flush loop: narrator.print_result(results[next_to_print]);
\* next_to_print += 1
FlushPrint ==
    /\ pc = "flush"
    /\ FlushCondition(results, next_to_print)
    /\ printed' = Append(printed, results[next_to_print + 1])
    /\ next_to_print' = next_to_print + 1
    /\ UNCHANGED <<gateVars, checks, quiet, pc, futures, results, completed,
                   yield_order, returned, scoreVars, diffVars, cliVars, hist, updates>>

\* the flush loop's condition is false: back to as_completed
FlushEnd ==
    /\ pc = "flush"
    /\ ~FlushCondition(results, next_to_print)
    /\ pc' = "wait"
    /\ UNCHANGED <<gateVars, checks, quiet, futures, results, next_to_print,
                   completed, printed, yield_order, returned, scoreVars, diffVars, cliVars, hist, updates>>

\* as_completed is exhausted; the pool and the narrator exit; return results
Return ==
    /\ pc = "wait"
    /\ Len(futures) = Len(checks)
    /\ \A i \in DOMAIN futures : futures[i].state = "yielded"
    /\ returned' = results
    /\ pc' = "done"
    /\ UNCHANGED <<gateVars, checks, quiet, futures, results, next_to_print,
                   completed, printed, yield_order, scoreVars, diffVars, cliVars, hist, updates>>

Next ==
    \/ Start
    \/ SilentExecute
    \/ SilentReturn
    \/ Submit
    \/ \E i \in DOMAIN futures : WorkerStart(i)
    \/ \E i \in DOMAIN futures : WorkerFinish(i)
    \/ \E i \in DOMAIN futures : AsCompleted(i)
    \/ FlushPrint
    \/ FlushEnd
    \/ Return

Spec == InitScan /\ [][Next]_vars

(***************************************************************************)
(* SpecHang: _run_checks over checks whose probe returns or never returns. *)
(* The main thread and the pool workers take every step they can take.     *)
(***************************************************************************)
\* A healthy check, and one whose probe body blocks for ever (a loop, or a
\* subprocess started without self.shell's timeout).
HangTemplates ==
    { [category |-> "system", fix_level |-> "none", min_macos |-> <<13, 0>>,
       requires_tool |-> "", apple_silicon_compatible |-> TRUE,
       probe |-> [kind |-> "return", status |-> "pass"]],
      [category |-> "network", fix_level |-> "none", min_macos |-> <<13, 0>>,
       requires_tool |-> "", apple_silicon_compatible |-> TRUE,
       probe |-> [kind |-> "hang"]],
      [category |-> "homebrew", fix_level |-> "none", min_macos |-> <<13, 0>>,
       requires_tool |-> "brew", apple_silicon_compatible |-> TRUE,
       probe |-> [kind |-> "hang"]] }

HangInputs ==
    UNION { { [i \in 1..n |-> WithId(ts[i], i)] : ts \in [1..n -> HangTemplates] }
            : n \in 0..MaxChecks }

InitHang ==
    /\ host = ScanHost
    /\ checks \in HangInputs
    /\ quiet \in BOOLEAN
    /\ pc = "start"
    /\ futures = <<>>
    /\ results = <<>>
    /\ next_to_print = 0
    /\ completed = 0
    /\ printed = <<>>
    /\ yield_order = <<>>
    /\ returned = None
    /\ IdleGate /\ IdleScore /\ IdleDiff /\ IdleCli /\ IdleHist /\ IdleUpdates

SpecHang == InitHang /\ [][Next]_vars /\ WF_vars(Next)

(***************************************************************************)
(* calculate_health_score (checks/base.py).                                *)
(***************************************************************************)
_SECURITY_CATEGORIES == {"system", "privacy", "security"}

\* int(points * m) for the float literal m = num/10: truncation toward zero of
\* a non-negative product.
IntOfProduct(points, num) == (points * num) \div 10

\* Mutant of deduction: the multiplied penalty is rounded, not truncated.
deduction_rounded(c) ==
    IF c.status = "critical"
    THEN IF c.category \in _SECURITY_CATEGORIES THEN (10 * 15 + 5) \div 10 ELSE 10
    ELSE IF c.status = "warning"
         THEN IF c.category \in _SECURITY_CATEGORIES THEN (3 * 12 + 5) \div 10 ELSE 3
         ELSE 0

\* the if / elif / else of the loop body: the points of one check
deduction(c) ==
    IF c.status = "critical"
    THEN IF c.category \in _SECURITY_CATEGORIES THEN IntOfProduct(10, 15) ELSE 10
    ELSE IF c.status = "warning"
         THEN IF c.category \in _SECURITY_CATEGORIES THEN IntOfProduct(3, 12) ELSE 3
         ELSE 0

\* Mutant of score_loop: the return statement sits inside the loop body, the
\* loop ends after its first iteration.
score_loop_returns_in_body(sc, cs) ==
    IF cs = <<>> THEN sc ELSE sc - deduction(Head(cs))

\* for check in checks: ...; score -= points
RECURSIVE score_loop(_, _)
score_loop(sc, cs) ==
    IF cs = <<>> THEN sc ELSE score_loop(sc - deduction(Head(cs)), Tail(cs))

Max(a, b) == IF a >= b THEN a ELSE b

Min(a, b) == IF a <= b THEN a ELSE b

\* Mutant of calculate_health_score: return min(100, score), the lower clamp
\* is missing.
calculate_health_score_no_floor(cs) == Min(100, score_loop(100, cs))

\* score = 100; the loop; return max(0, min(100, score))
calculate_health_score(cs) == Max(0, Min(100, score_loop(100, cs)))

\* A Python int held by a variable that may also hold None.
PyInt(n) == [value |-> n]

(***************************************************************************)
(* SpecScore: calculate_health_score is called on a drawn list, the caller *)
(* exchanges two different verdicts of the list and calls it again.        *)
(***************************************************************************)
ScoreCategories == {"system", "privacy", "security", "disk"}

ScoreVerdicts == [status : Statuses, category : ScoreCategories]

HeavyVerdicts ==
    { [status |-> "critical", category |-> "security"],
      [status |-> "critical", category |-> "disk"],
      [status |-> "warning", category |-> "privacy"] }

ScoreInputs ==
    UNION { [1..n -> ScoreVerdicts] : n \in 0..MaxScoreLen }
    \cup UNION { [1..n -> HeavyVerdicts] : n \in 0..MaxHeavyLen }
    \cup UNION { { [i \in 1..n |-> v] : v \in ScoreVerdicts } : n \in 0..MaxRepeat }

InitScore ==
    /\ host = ScanHost
    /\ score_checks \in ScoreInputs
    /\ score = None
    /\ first_score = None
    /\ score_pc = "input"
    /\ IdleGate /\ IdleScan /\ IdleDiff /\ IdleCli /\ IdleHist /\ IdleUpdates

\* score = calculate_health_score(results)
Score ==
    /\ score_pc \in {"input", "reordered"}
    /\ score' = PyInt(calculate_health_score(score_checks))
    /\ first_score' = IF score_pc = "input"
                      THEN PyInt(calculate_health_score(score_checks))
                      ELSE first_score
    /\ score_pc' = IF score_pc = "input" THEN "scored" ELSE "rescored"
    /\ UNCHANGED <<gateVars, scanVars, score_checks, diffVars, cliVars, hist, updates>>

\* the caller hands over the same verdicts in another order
Reorder(i, j) ==
    /\ score_pc \in {"scored", "rescored"}
    /\ i < j
    /\ score_checks[i] # score_checks[j]
    /\ score_checks' = [score_checks EXCEPT ![i] = score_checks[j],
                                            ![j] = score_checks[i]]
    /\ score' = None
    /\ score_pc' = "reordered"
    /\ UNCHANGED <<gateVars, scanVars, first_score, diffVars, cliVars, hist, updates>>

NextScore ==
    \/ Score
    \/ \E i, j \in DOMAIN score_checks : Reorder(i, j)

SpecScore == InitScore /\ [][NextScore]_vars

(***************************************************************************)
(* compute_diff / is_empty_diff (diff.py).  A payload is the dict of the   *)
(* --json output: schema_version, scan_time, score and results, each       *)
(* result with id, name, category, status and message.  A key that is      *)
(* missing from the dict holds None here, and .get supplies its default.   *)
(***************************************************************************)
\* Mutant of _STATUS_SEVERITY: skip ranks below info.
_STATUS_SEVERITY_skip_below_info(status) ==
    CASE status = "pass"     -> 0
      [] status = "skip"     -> 1
      [] status = "info"     -> 2
      [] status = "warning"  -> 3
      [] status = "error"    -> 4
      [] status = "critical" -> 5
      [] OTHER               -> 0

_STATUS_SEVERITY(status) ==
    CASE status = "pass"     -> 0
      [] status = "info"     -> 1
      [] status = "skip"     -> 2
      [] status = "warning"  -> 3
      [] status = "error"    -> 4
      [] status = "critical" -> 5
      [] OTHER               -> 0

\* payload.get("score", 0)
get_score(p) == IF p.score = None THEN 0 ELSE p.score.value

\* {r["id"]: r for r in payload.get("results", [])}: the ids, and for each id
\* the last result of the list that carries it.
ids_of(rs) == { rs[k].id : k \in DOMAIN rs }

by_id(rs, id) ==
    rs[CHOOSE k \in DOMAIN rs :
          rs[k].id = id /\ \A j \in DOMAIN rs : rs[j].id = id => j <= k]

\* Position of an id in the order the lists are sorted by.
IdRank(id) == CHOOSE i \in 1..6 : CheckId(i) = id

\* list.sort(key=lambda d: d["id"]) of entries with distinct ids
RECURSIVE SortById(_)
SortById(entries) ==
    IF entries = {} THEN <<>>
    ELSE LET first == CHOOSE x \in entries :
                          \A y \in entries : IdRank(x.id) <= IdRank(y.id)
         IN  <<first>> \o SortById(entries \ {first})

\* the dict appended to improved or regressed
change_entry(prev_r, curr_r) ==
    [id |-> curr_r.id, name |-> curr_r.name, category |-> curr_r.category,
     before_status |-> prev_r.status, after_status |-> curr_r.status,
     message |-> curr_r.message]

\* the dict appended to new_checks or removed_checks
presence_entry(r) ==
    [id |-> r.id, name |-> r.name, category |-> r.category,
     status |-> r.status, message |-> r.message]

\* Mutant of is_empty_diff: the score delta is not looked at.
is_empty_diff_ignores_score(d) ==
    /\ d.improved = <<>>
    /\ d.regressed = <<>>
    /\ d.new_checks = <<>>
    /\ d.removed_checks = <<>>

\* is_empty_diff: no score delta and nothing in the four lists
is_empty_diff(d) ==
    /\ d.score_delta = 0
    /\ d.improved = <<>>
    /\ d.regressed = <<>>
    /\ d.new_checks = <<>>
    /\ d.removed_checks = <<>>

\* Mutant of compare_results: the two result dicts are compared whole, so a
\* result whose message changed counts as regressed.
compare_results_whole_dict(prev_r, curr_r) ==
    IF _STATUS_SEVERITY(curr_r.status) < _STATUS_SEVERITY(prev_r.status) THEN "improved"
    ELSE IF curr_r # prev_r THEN "regressed"
    ELSE "same"

\* the loop body over common_ids:
\* if curr_sev < prev_sev: improved  elif curr_sev > prev_sev: regressed
compare_results(prev_r, curr_r) ==
    IF _STATUS_SEVERITY(curr_r.status) < _STATUS_SEVERITY(prev_r.status) THEN "improved"
    ELSE IF _STATUS_SEVERITY(curr_r.status) > _STATUS_SEVERITY(prev_r.status) THEN "regressed"
    ELSE "same"

\* Mutant of schema_version_differs: only two versions that are both present
\* are compared, so a payload without the field passes the guard.
schema_version_differs_when_present(cur, prev) ==
    /\ cur.schema_version # None
    /\ prev.schema_version # None
    /\ cur.schema_version # prev.schema_version

\* current.get("schema_version") != previous.get("schema_version")
schema_version_differs(cur, prev) ==
    cur.schema_version # prev.schema_version

\* Mutant of filter_ratio_over_half: the lists are dropped from one half on.
filter_ratio_from_half(n_new, n_removed, total_checks) ==
    2 * (n_new + n_removed) >= total_checks

\* filter_ratio = (len(new_checks) + len(removed_checks)) / total_checks
\* if filter_ratio > 0.5
filter_ratio_over_half(n_new, n_removed, total_checks) ==
    2 * (n_new + n_removed) > total_checks

compute_diff(cur, prev) ==
    IF schema_version_differs(cur, prev) THEN None
    ELSE
    LET score_before == get_score(prev)
        score_after  == get_score(cur)
        prev_ids     == ids_of(prev.results)
        curr_ids     == ids_of(cur.results)
        common_ids   == prev_ids \cap curr_ids
        improved     == SortById({ change_entry(by_id(prev.results, id), by_id(cur.results, id)) :
                            id \in { x \in common_ids :
                                compare_results(by_id(prev.results, x), by_id(cur.results, x))
                                    = "improved" } })
        regressed    == SortById({ change_entry(by_id(prev.results, id), by_id(cur.results, id)) :
                            id \in { x \in common_ids :
                                compare_results(by_id(prev.results, x), by_id(cur.results, x))
                                    = "regressed" } })
        new_checks   == SortById({ presence_entry(by_id(cur.results, id)) :
                            id \in curr_ids \ prev_ids })
        removed      == SortById({ presence_entry(by_id(prev.results, id)) :
                            id \in prev_ids \ curr_ids })
        total_checks == Max(Max(Cardinality(prev_ids), Cardinality(curr_ids)), 1)
        suppress     == filter_ratio_over_half(Len(new_checks), Len(removed), total_checks)
        d == [previous_scan_time |-> prev.scan_time,
              score_before   |-> score_before,
              score_after    |-> score_after,
              score_delta    |-> score_after - score_before,
              improved       |-> improved,
              regressed      |-> regressed,
              new_checks     |-> IF suppress THEN <<>> ELSE new_checks,
              removed_checks |-> IF suppress THEN <<>> ELSE removed]
    IN  IF is_empty_diff(d) THEN None ELSE d

(***************************************************************************)
(* SpecDiff: compute_diff(current, previous) on a drawn pair of payloads.  *)
(***************************************************************************)
DiffIds == { CheckId(i) : i \in 1..NumDiffIds }

\* The results of one scan made at scan_time: the checks that were selected, in
\* scan order, each with a status; messages carry the time of their scan.
ResultOf(id, status, time) ==
    [id |-> id, name |-> <<"name of", id>>, category |-> "system",
     status |-> status, message |-> <<"message at", time>>]

RECURSIVE ResultList(_, _, _)
ResultList(st, time, i) ==
    IF i > NumDiffIds THEN <<>>
    ELSE IF st[CheckId(i)] = "absent" THEN ResultList(st, time, i + 1)
    ELSE <<ResultOf(CheckId(i), st[CheckId(i)], time)>> \o ResultList(st, time, i + 1)

\* schema_version, score and scan_time of the stored scans ...
StoredEnvelopes ==
    { [schema_version |-> PyInt(1), score |-> PyInt(70), scan_time |-> "t1"],
      [schema_version |-> PyInt(1), score |-> PyInt(85), scan_time |-> "t1"] }

\* ... and of the just-completed ones: the same scan or a later one, perhaps
\* written by a version with another schema, or a dict without the field.
CurrentEnvelopes ==
    StoredEnvelopes
    \cup { [schema_version |-> PyInt(1), score |-> PyInt(70), scan_time |-> "t2"],
           [schema_version |-> PyInt(2), score |-> PyInt(70), scan_time |-> "t2"],
           [schema_version |-> None,     score |-> PyInt(85), scan_time |-> "t2"] }

\* What a scan may report for each check: the first check any status, the
\* others pass or warning; every check may be left out of a scan.
ScanStatuses ==
    { st \in [DiffIds -> Statuses \cup {"absent"}] :
        \A i \in 2..NumDiffIds : st[CheckId(i)] \in {"absent", "pass", "warning"} }

Payloads(envelopes) ==
    { [schema_version |-> e.schema_version, score |-> e.score,
       scan_time |-> e.scan_time, results |-> ResultList(st, e.scan_time, 1)] :
        e \in envelopes, st \in ScanStatuses }

InitDiff ==
    /\ host = ScanHost
    /\ current \in Payloads(CurrentEnvelopes)
    /\ previous \in Payloads(StoredEnvelopes)
    /\ diff = [called |-> FALSE]
    /\ IdleGate /\ IdleScan /\ IdleScore /\ IdleCli /\ IdleHist /\ IdleUpdates

\* diff = compute_diff(current, previous)
Diff ==
    /\ ~diff.called
    /\ diff' = [called |-> TRUE, value |-> compute_diff(current, previous)]
    /\ UNCHANGED <<gateVars, scanVars, scoreVars, current, previous, cliVars, hist, updates>>

NextDiff == Diff

SpecDiff == InitDiff /\ [][NextDiff]_vars

(***************************************************************************)
(* fixer/executor.py: one executor per fix level.  A verdict handed to the *)
(* fix session carries status, fix_level, fix_command, fix_url, fix_steps, *)
(* recommendation, fix_reversible and requires_sudo; an empty string or    *)
(* list is Python's falsy value.  env is what the operating system does    *)
(* with the process the executor starts.  An executor's outcome is the     *)
(* bool it returns, the line it prints last and the process it started.    *)
(***************************************************************************)
Outcome(executor, ret, console, ran) ==
    [executors |-> <<executor>>, returned |-> ret, console |-> console, ran |-> ran]

AutoEnvs == {"exit0", "exit_nonzero", "timeout", "oserror"}

SudoEnvs == {"exit0", "user_canceled", "exit_nonzero", "timeout", "no_osascript", "oserror"}

GuidedEnvs == {"opened", "fallback_opened", "fallback_error", "oserror"}

\* What can happen to the process an executor starts for verdict r.
EnvsFor(r) ==
    CASE r.fix_level = "auto" /\ r.fix_command # ""      -> AutoEnvs
      [] r.fix_level = "auto_sudo" /\ r.fix_command # "" -> SudoEnvs
      [] r.fix_level = "guided" /\ r.fix_url # ""        -> GuidedEnvs
      [] OTHER                                           -> {"untouched"}

run_auto_fix(result, env) ==
    IF result.fix_command = ""
    THEN Outcome("run_auto_fix", FALSE, "No fix command defined.", <<>>)
    ELSE LET ran == <<"shell", result.fix_command>>
         IN  CASE env = "exit0" ->
                    Outcome("run_auto_fix", TRUE, "Completed successfully.", ran)
               [] env = "exit_nonzero" ->
                    Outcome("run_auto_fix", FALSE, "Finished with exit code {}.", ran)
               [] env = "timeout" ->
                    Outcome("run_auto_fix", FALSE, "Command timed out (>120s).", ran)
               [] OTHER ->
                    Outcome("run_auto_fix", FALSE, "Error: {}", <<>>)

run_auto_sudo_fix(result, env) ==
    IF result.fix_command = ""
    THEN Outcome("run_auto_sudo_fix", FALSE, "No fix command defined.", <<>>)
    ELSE LET ran == <<"osascript", result.fix_command>>
         IN  CASE env = "exit0" ->
                    Outcome("run_auto_sudo_fix", TRUE, "Completed successfully.", ran)
               [] env = "user_canceled" ->
                    Outcome("run_auto_sudo_fix", FALSE, "Cancelled by user.", ran)
               [] env = "exit_nonzero" ->
                    Outcome("run_auto_sudo_fix", FALSE, "Finished with issues: {}", ran)
               [] env = "timeout" ->
                    Outcome("run_auto_sudo_fix", FALSE,
                            "Timed out waiting for authentication.", ran)
               [] env = "no_osascript" ->
                    Outcome("run_auto_sudo_fix", FALSE,
                            "osascript not found - cannot run privileged command.", <<>>)
               [] OTHER ->
                    Outcome("run_auto_sudo_fix", FALSE, "Error: {}", <<>>)

\* Mutant of run_guided_fix: a fix_command set on the verdict is run in a
\* shell before the settings pane is opened.
run_guided_fix_runs_command(result, env) ==
    IF result.fix_url = ""
    THEN Outcome("run_guided_fix", FALSE, "No System Settings URL defined.", <<>>)
    ELSE IF result.fix_command # ""
    THEN Outcome("run_guided_fix", TRUE, "System Settings opened.",
                 <<"shell", result.fix_command>>)
    ELSE Outcome("run_guided_fix", env = "opened", "System Settings opened.",
                 <<"open", result.fix_url>>)

run_guided_fix(result, env) ==
    IF result.fix_url = ""
    THEN Outcome("run_guided_fix", FALSE, "No System Settings URL defined.", <<>>)
    ELSE CASE env = "opened" ->
                Outcome("run_guided_fix", TRUE, "System Settings opened.",
                        <<"open", result.fix_url>>)
           [] env = "fallback_opened" ->
                Outcome("run_guided_fix", TRUE,
                        "Opened System Settings (deep link unsupported on this macOS version).",
                        <<"open", "-a System Settings">>)
           [] env = "fallback_error" ->
                Outcome("run_guided_fix", FALSE, "Could not open System Settings: {}", <<>>)
           [] OTHER ->
                Outcome("run_guided_fix", FALSE, "Error: {}", <<>>)

\* Mutant of run_instructions_fix: without steps it fails, the recommendation
\* is not used as fallback.
run_instructions_fix_steps_only(result, env) ==
    IF result.fix_steps # <<>>
    THEN Outcome("run_instructions_fix", TRUE, "Steps to follow:", <<>>)
    ELSE Outcome("run_instructions_fix", FALSE,
                 "No instructions defined for this check.", <<>>)

run_instructions_fix(result, env) ==
    IF result.fix_steps # <<>>
    THEN Outcome("run_instructions_fix", TRUE, "Steps to follow:", <<>>)
    ELSE IF result.recommendation # ""
         THEN Outcome("run_instructions_fix", TRUE, result.recommendation, <<>>)
         ELSE Outcome("run_instructions_fix", FALSE,
                      "No instructions defined for this check.", <<>>)

(***************************************************************************)
(* fixer/runner.py: _dispatch.                                             *)
(***************************************************************************)
dispatch_map ==
    [auto         |-> "run_auto_fix",
     auto_sudo    |-> "run_auto_sudo_fix",
     guided       |-> "run_guided_fix",
     instructions |-> "run_instructions_fix"]

\* fn(result, console) for the function object fn of the map
CallExecutor(fn, result, env) ==
    CASE fn = "run_auto_fix"         -> run_auto_fix(result, env)
      [] fn = "run_auto_sudo_fix"    -> run_auto_sudo_fix(result, env)
      [] fn = "run_guided_fix"       -> run_guided_fix(result, env)
      [] fn = "run_instructions_fix" -> run_instructions_fix(result, env)

NoExecutor ==
    [executors |-> <<>>, returned |-> FALSE,
     console |-> "No executor for this fix level.", ran |-> <<>>]

\* Mutant of _dispatch: a verdict that requires sudo goes to run_auto_sudo_fix
\* whatever its fix_level.
_dispatch_by_requires_sudo(result, env) ==
    IF result.requires_sudo THEN run_auto_sudo_fix(result, env)
    ELSE IF result.fix_level \notin DOMAIN dispatch_map THEN NoExecutor
    ELSE CallExecutor(dispatch_map[result.fix_level], result, env)

\* fn = dispatch_map.get(result.fix_level); if fn is None: ... return False;
\* return fn(result, console)
_dispatch(result, env) ==
    IF result.fix_level \notin DOMAIN dispatch_map THEN NoExecutor
    ELSE CallExecutor(dispatch_map[result.fix_level], result, env)

\* What the session log keeps of one _dispatch call on the idx-th item.
DispatchEvent(idx, result, env) ==
    LET o == _dispatch(result, env)
    IN  [kind |-> "dispatch", idx |-> idx, id |-> result.id, env |-> env,
         executors |-> o.executors, returned |-> o.returned,
         console |-> o.console, ran |-> o.ran]

(***************************************************************************)
(* SpecDispatch: one call of _dispatch on a drawn verdict.                 *)
(***************************************************************************)
\* Verdicts of every status and fix level, a level the map does not know
\* included, with and without requires_sudo, a fix command, a settings URL,
\* fix steps and a recommendation.
DispatchInputs ==
    [id : {CheckId(1)}, status : Statuses, fix_level : FixLevels \cup {"manual"},
     fix_command : {"", "softwareupdate -ia"}, fix_url : {"", "x-apple.systempreferences:"},
     fix_steps : {<<>>, <<"Open the pane">>}, recommendation : {"", "Turn it on."},
     fix_reversible : {TRUE}, requires_sudo : BOOLEAN]

InitDispatch ==
    /\ host = ScanHost
    /\ opts = None
    /\ cli = [pc |-> "idle"]
    /\ verdicts \in { <<r>> : r \in DispatchInputs }
    /\ session = [pc |-> "dispatch"]
    /\ session_log = <<>>
    /\ IdleGate /\ IdleScan /\ IdleScore /\ IdleDiff /\ IdleHist /\ IdleUpdates

\* success = _dispatch(result, console)
DispatchCall ==
    /\ session.pc = "dispatch"
    /\ \E env \in EnvsFor(verdicts[1]) :
          session_log' = Append(session_log, DispatchEvent(1, verdicts[1], env))
    /\ session' = [pc |-> "returned"]
    /\ UNCHANGED <<gateVars, scanVars, scoreVars, diffVars, hist, updates, opts, cli, verdicts>>

NextDispatch == DispatchCall

SpecDispatch == InitDispatch /\ [][NextDispatch]_vars

(***************************************************************************)
(* fixer/runner.py: run_fix_session, _run_interactive_mode, _run_auto_mode.*)
(* The activation record holds the position, the list being walked (the    *)
(* fixable verdicts, or the safe ones in auto mode), the 1-based index of  *)
(* the current item and the two counters.                                  *)
(***************************************************************************)
\* Mutant of _SEVERITY_ORDER: error sorts before warning.
_SEVERITY_ORDER_error_before_warning(status) ==
    CASE status = "critical" -> 0
      [] status = "error"    -> 1
      [] status = "warning"  -> 2
      [] status = "info"     -> 3
      [] OTHER               -> 9

_SEVERITY_ORDER(status) ==
    CASE status = "critical" -> 0
      [] status = "warning"  -> 1
      [] status = "error"    -> 2
      [] status = "info"     -> 3
      [] OTHER               -> 9

\* sorted(xs, key=...): the sort is stable, so the result is, key by key in
\* ascending order, the elements of that key in their original order.
RECURSIVE SortedBySeverity(_, _)
SortedBySeverity(xs, key) ==
    IF key > 9 THEN <<>>
    ELSE SelectSeq(xs, LAMBDA r : _SEVERITY_ORDER(r.status) = key)
            \o SortedBySeverity(xs, key + 1)

_get_fixable(rs) == SortedBySeverity(SelectSeq(rs, fixable), 0)

\* Mutant of safe_of: the filter does not look at fix_reversible.
safe_of_any_auto(queue) ==
    SelectSeq(queue, LAMBDA r : r.fix_level = "auto" /\ ~r.requires_sudo)

\* safe = [r for r in fixable if r.fix_level == "auto" and r.fix_reversible
\*         and not r.requires_sudo]
safe_of(queue) ==
    SelectSeq(queue, LAMBDA r : r.fix_level = "auto" /\ r.fix_reversible /\ ~r.requires_sudo)

\* What TerminalMenu.show() returns: None (Escape), or the index of the entry.
MenuChoices == {None, PyInt(0), PyInt(1), PyInt(2)}

\* Mutant of menu_outcome: every menu is read as ["No, skip", "Yes, apply",
\* "Quit"], the one of guided and instructions items included.
menu_outcome_one_layout(fix_level, choice) ==
    IF choice = None \/ choice = PyInt(2) THEN "cancel"
    ELSE IF choice = PyInt(0) THEN "skip"
    ELSE "proceed"

\* Mutant of menu_outcome: Quit and Escape skip the item instead of ending
\* the session.
menu_outcome_quit_skips(fix_level, choice) ==
    IF choice = None \/ choice = PyInt(2) THEN "skip"
    ELSE IF fix_level \in {"auto", "auto_sudo"}
         THEN (IF choice = PyInt(0) THEN "skip" ELSE "proceed")
         ELSE (IF choice = PyInt(1) THEN "skip" ELSE "proceed")

\* The two if-chains after menu.show(): ["No, skip", "Yes, apply", "Quit"] for
\* auto and auto_sudo, ["Continue", "Skip", "Quit"] for the other levels.
menu_outcome(fix_level, choice) ==
    IF fix_level \in {"auto", "auto_sudo"}
    THEN (IF choice = None \/ choice = PyInt(2) THEN "cancel"
          ELSE IF choice = PyInt(0) THEN "skip"
          ELSE "proceed")
    ELSE (IF choice = None \/ choice = PyInt(2) THEN "cancel"
          ELSE IF choice = PyInt(1) THEN "skip"
          ELSE "proceed")

\* Mutant of after_confirmation: the dry-run test is missing, a confirmed item
\* is always dispatched.
after_confirmation_always_dispatch(dry_run) == "dispatch"

\* if dry_run: print "Skipped (dry run)"; applied += 1; continue
\* otherwise the loop body goes on to _dispatch
after_confirmation(dry_run) == IF dry_run THEN "count" ELSE "dispatch"

\* Mutant of count_outcome: a failed fix is counted neither as applied nor as
\* skipped.
count_outcome_success_only(s, success) ==
    [s EXCEPT !.applied = IF success THEN @ + 1 ELSE @]

\* applied += 1 if success else 0; skipped += 0 if success else 1
count_outcome(s, success) ==
    [s EXCEPT !.applied = IF success THEN @ + 1 ELSE @,
              !.skipped = IF success THEN @ ELSE @ + 1]

\* _print_session_summary(console, applied, skipped, total, dry_run=dry_run)
SummaryEvent(applied, skipped, total, dry_run) ==
    [kind |-> "summary", applied |-> applied, skipped |-> skipped,
     total |-> total, dry_run |-> dry_run]

session_entry == [pc |-> "entry"]

session_done == [pc |-> "done"]

\* run_fix_session up to the branch on auto
FixStart ==
    /\ session.pc = "entry"
    /\ LET queue == _get_fixable(verdicts)
       IN  IF queue = <<>>
           THEN /\ session' = session_done
                /\ session_log' = Append(session_log, [kind |-> "nothing_to_fix"])
           ELSE /\ session' = [pc |-> IF opts.auto THEN "auto" ELSE "card",
                               queue |-> queue, idx |-> 1, applied |-> 0, skipped |-> 0]
                /\ session_log' = Append(session_log,
                                         [kind |-> "panel", count |-> Len(queue)])
    /\ UNCHANGED <<gateVars, scanVars, scoreVars, diffVars, hist, updates, opts, cli, verdicts>>

\* for idx, result in enumerate(fixable, 1): _print_fix_card(...)
FixCard ==
    /\ session.pc = "card"
    /\ session.idx <= Len(session.queue)
    /\ session_log' = Append(session_log,
                             [kind |-> "card", idx |-> session.idx,
                              id |-> session.queue[session.idx].id])
    /\ session' = [session EXCEPT !.pc = "menu"]
    /\ UNCHANGED <<gateVars, scanVars, scoreVars, diffVars, hist, updates, opts, cli, verdicts>>

\* choice = menu.show() and the statements that follow it, up to _dispatch
FixMenu ==
    /\ session.pc = "menu"
    /\ \E choice \in MenuChoices :
          LET result  == session.queue[session.idx]
              asked   == Append(session_log,
                                [kind |-> "choice", idx |-> session.idx,
                                 id |-> result.id, choice |-> choice])
              outcome == menu_outcome(result.fix_level, choice)
          IN  CASE outcome = "cancel" ->
                     /\ session_log' = Append(asked,
                                              SummaryEvent(session.applied, session.skipped,
                                                           Len(session.queue), opts.dry_run))
                     /\ session' = session_done
                [] outcome = "skip" ->
                     /\ session_log' = asked
                     /\ session' = [session EXCEPT !.pc = "card", !.idx = @ + 1,
                                                   !.skipped = @ + 1]
                [] outcome = "proceed" /\ after_confirmation(opts.dry_run) = "count" ->
                     /\ session_log' = asked
                     /\ session' = [session EXCEPT !.pc = "card", !.idx = @ + 1,
                                                   !.applied = @ + 1]
                [] OTHER ->
                     /\ session_log' = asked
                     /\ session' = [session EXCEPT !.pc = "dispatch"]
    /\ UNCHANGED <<gateVars, scanVars, scoreVars, diffVars, hist, updates, opts, cli, verdicts>>

\* success = _dispatch(result, console); applied += 1 if success else 0;
\* skipped += 0 if success else 1
FixDispatch ==
    /\ session.pc = "dispatch"
    /\ \E env \in EnvsFor(session.queue[session.idx]) :
          LET ev == DispatchEvent(session.idx, session.queue[session.idx], env)
          IN  /\ session_log' = Append(session_log, ev)
              /\ session' = [count_outcome(session, ev.returned) EXCEPT
                                !.pc = "card", !.idx = @ + 1]
    /\ UNCHANGED <<gateVars, scanVars, scoreVars, diffVars, hist, updates, opts, cli, verdicts>>

\* the loop is exhausted: _print_session_summary(...)
FixSummary ==
    /\ session.pc = "card"
    /\ session.idx > Len(session.queue)
    /\ session_log' = Append(session_log,
                             SummaryEvent(session.applied, session.skipped,
                                          Len(session.queue), opts.dry_run))
    /\ session' = session_done
    /\ UNCHANGED <<gateVars, scanVars, scoreVars, diffVars, hist, updates, opts, cli, verdicts>>

\* _run_auto_mode up to its loop
AutoStart ==
    /\ session.pc = "auto"
    /\ LET safe == safe_of(session.queue)
       IN  IF safe = <<>>
           THEN /\ session_log' = Append(session_log, [kind |-> "no_safe_fixes"])
                /\ session' = session_done
           ELSE IF opts.dry_run
           THEN /\ session_log' = Append(
                        Append(session_log,
                               [kind |-> "would_apply",
                                ids |-> [k \in DOMAIN safe |-> safe[k].id]]),
                        SummaryEvent(Len(safe), 0, Len(safe), TRUE))
                /\ session' = session_done
           ELSE /\ session_log' = Append(session_log,
                                         [kind |-> "applying", count |-> Len(safe)])
                /\ session' = [pc |-> "auto_loop", queue |-> safe, idx |-> 1,
                               applied |-> 0, skipped |-> 0]
    /\ UNCHANGED <<gateVars, scanVars, scoreVars, diffVars, hist, updates, opts, cli, verdicts>>

\* for result in safe: success = _dispatch(result, console); ...
AutoDispatch ==
    /\ session.pc = "auto_loop"
    /\ session.idx <= Len(session.queue)
    /\ \E env \in EnvsFor(session.queue[session.idx]) :
          LET ev == DispatchEvent(session.idx, session.queue[session.idx], env)
          IN  /\ session_log' = Append(session_log, ev)
              /\ session' = [session EXCEPT
                                !.idx = @ + 1,
                                !.applied = IF ev.returned THEN @ + 1 ELSE @,
                                !.skipped = IF ev.returned THEN @ ELSE @ + 1]
    /\ UNCHANGED <<gateVars, scanVars, scoreVars, diffVars, hist, updates, opts, cli, verdicts>>

\* _print_session_summary(console, applied, skipped, len(safe))
AutoSummary ==
    /\ session.pc = "auto_loop"
    /\ session.idx > Len(session.queue)
    /\ session_log' = Append(session_log,
                             SummaryEvent(session.applied, session.skipped,
                                          Len(session.queue), FALSE))
    /\ session' = session_done
    /\ UNCHANGED <<gateVars, scanVars, scoreVars, diffVars, hist, updates, opts, cli, verdicts>>

NextFix ==
    \/ FixStart
    \/ FixCard
    \/ FixMenu
    \/ FixDispatch
    \/ FixSummary
    \/ AutoStart
    \/ AutoDispatch
    \/ AutoSummary

(***************************************************************************)
(* SpecFix: one call of run_fix_session(results, console, auto, dry_run).  *)
(***************************************************************************)
MaxFixItems == 2

\* The verdicts of a scan: findings of each fix level, with and without what
\* their executor needs, a healthy check, a finding without a fix, an
\* automatic fix that needs sudo, and the error verdict of a check whose probe
\* raised (it keeps the fix level of its class).
FixTemplates ==
    { [status |-> "critical", fix_level |-> "auto", fix_command |-> "softwareupdate -ia",
       fix_url |-> "", fix_steps |-> <<>>, recommendation |-> "Install the updates.",
       fix_reversible |-> TRUE, requires_sudo |-> FALSE],
      [status |-> "warning", fix_level |-> "auto", fix_command |-> "rm -rf ~/Library/Caches/x",
       fix_url |-> "", fix_steps |-> <<>>, recommendation |-> "",
       fix_reversible |-> FALSE, requires_sudo |-> FALSE],
      [status |-> "warning", fix_level |-> "auto_sudo", fix_command |-> "pmset -a sleep 10",
       fix_url |-> "", fix_steps |-> <<>>, recommendation |-> "",
       fix_reversible |-> TRUE, requires_sudo |-> TRUE],
      [status |-> "critical", fix_level |-> "guided", fix_command |-> "",
       fix_url |-> "x-apple.systempreferences:com.apple.preference.security",
       fix_steps |-> <<"Turn on FileVault">>, recommendation |-> "Turn on FileVault.",
       fix_reversible |-> TRUE, requires_sudo |-> FALSE],
      [status |-> "info", fix_level |-> "instructions", fix_command |-> "",
       fix_url |-> "", fix_steps |-> <<"Review the login items">>, recommendation |-> "",
       fix_reversible |-> TRUE, requires_sudo |-> FALSE],
      [status |-> "pass", fix_level |-> "auto", fix_command |-> "softwareupdate -ia",
       fix_url |-> "", fix_steps |-> <<>>, recommendation |-> "",
       fix_reversible |-> TRUE, requires_sudo |-> FALSE],
      [status |-> "warning", fix_level |-> "none", fix_command |-> "",
       fix_url |-> "", fix_steps |-> <<>>, recommendation |-> "Free some space.",
       fix_reversible |-> TRUE, requires_sudo |-> FALSE],
      [status |-> "warning", fix_level |-> "auto", fix_command |-> "dscacheutil -flushcache",
       fix_url |-> "", fix_steps |-> <<>>, recommendation |-> "",
       fix_reversible |-> TRUE, requires_sudo |-> TRUE],
      [status |-> "error", fix_level |-> "instructions", fix_command |-> "",
       fix_url |-> "", fix_steps |-> <<>>, recommendation |-> "",
       fix_reversible |-> TRUE, requires_sudo |-> FALSE] }

VerdictWithId(t, i) ==
    [id |-> CheckId(i), status |-> t.status, fix_level |-> t.fix_level,
     fix_command |-> t.fix_command, fix_url |-> t.fix_url, fix_steps |-> t.fix_steps,
     recommendation |-> t.recommendation, fix_reversible |-> t.fix_reversible,
     requires_sudo |-> t.requires_sudo]

VerdictLists(templates) ==
    UNION { { [i \in 1..n |-> VerdictWithId(ts[i], i)] : ts \in [1..n -> templates] }
            : n \in 0..MaxFixItems }

InitFix ==
    /\ host = ScanHost
    /\ opts \in [as_json : {FALSE}, quiet : {FALSE}, fix : {TRUE}, auto : BOOLEAN,
                 dry_run : BOOLEAN, fail_on_critical : {FALSE}]
    /\ cli = [pc |-> "idle"]
    /\ verdicts \in VerdictLists(FixTemplates)
    /\ session = session_entry
    /\ session_log = <<>>
    /\ IdleGate /\ IdleScan /\ IdleScore /\ IdleDiff /\ IdleHist /\ IdleUpdates

SpecFix == InitFix /\ [][NextFix]_vars

(***************************************************************************)
(* SpecCli: one run of cli() (main.py), from the validation of the flags   *)
(* to the exit of the process.  verdicts is what the selected checks yield,*)
(* one verdict per check; a return from cli() is exit code 0 and           *)
(* raise SystemExit(n) is exit code n.                                     *)
(***************************************************************************)
cli_entry == [pc |-> "validate", scanned |-> FALSE, out |-> <<>>, exit_code |-> None]

\* return from cli(), or raise SystemExit(code)
Exit(c, code) == [c EXCEPT !.pc = "exited", !.exit_code = PyInt(code)]

\* sum(1 for r in results if r.status == "critical")
criticals(rs) == Cardinality({ i \in DOMAIN rs : rs[i].status = "critical" })

\* if dry_run and not fix: raise SystemExit(1)
CliValidate ==
    /\ cli.pc = "validate"
    /\ cli' = IF opts.dry_run /\ ~opts.fix THEN Exit(cli, 1)
              ELSE [cli EXCEPT !.pc = "collect"]
    /\ UNCHANGED <<gateVars, scanVars, scoreVars, diffVars, hist, updates, opts, verdicts,
                   session, session_log>>

\* all_checks = _collect_checks(...); if not all_checks: return
CliCollect ==
    /\ cli.pc = "collect"
    /\ cli' = IF Len(verdicts) = 0 THEN Exit(cli, 0)
              ELSE [cli EXCEPT !.pc = "prompt"]
    /\ UNCHANGED <<gateVars, scanVars, scoreVars, diffVars, hist, updates, opts, verdicts,
                   session, session_log>>

\* the pre-scan prompt of a narrated run: ENTER begins, Ctrl-C or end of input
\* returns
CliPrompt ==
    /\ cli.pc = "prompt"
    /\ IF opts.quiet \/ opts.as_json
       THEN cli' = [cli EXCEPT !.pc = "scan"]
       ELSE \E answer \in {"enter", "KeyboardInterrupt"} :
                cli' = IF answer = "enter" THEN [cli EXCEPT !.pc = "scan"]
                       ELSE Exit(cli, 0)
    /\ UNCHANGED <<gateVars, scanVars, scoreVars, diffVars, hist, updates, opts, verdicts,
                   session, session_log>>

\* results = _run_checks(all_checks, quiet=quiet, as_json=as_json)
CliScan ==
    /\ cli.pc = "scan"
    /\ cli' = [cli EXCEPT !.pc = "output", !.scanned = TRUE]
    /\ UNCHANGED <<gateVars, scanVars, scoreVars, diffVars, hist, updates, opts, verdicts,
                   session, session_log>>

\* if as_json: _output_json(results); return
\* if quiet: console.print(...); return
\* print_report(...); if fix: run_fix_session(...)
CliOutput ==
    /\ cli.pc = "output"
    /\ IF opts.as_json
       THEN /\ cli' = Exit([cli EXCEPT !.out = Append(@, "json")], 0)
            /\ UNCHANGED session
       ELSE IF opts.quiet
       THEN /\ cli' = Exit([cli EXCEPT !.out = Append(@, "quiet")], 0)
            /\ UNCHANGED session
       ELSE IF opts.fix
       THEN /\ cli' = [cli EXCEPT !.out = Append(@, "report"), !.pc = "fix"]
            /\ session' = session_entry
       ELSE /\ cli' = [cli EXCEPT !.out = Append(@, "report"), !.pc = "contract"]
            /\ UNCHANGED session
    /\ UNCHANGED <<gateVars, scanVars, scoreVars, diffVars, hist, updates, opts, verdicts, session_log>>

\* run_fix_session returned
CliFixReturn ==
    /\ cli.pc = "fix"
    /\ session.pc = "done"
    /\ cli' = [cli EXCEPT !.pc = "contract"]
    /\ UNCHANGED <<gateVars, scanVars, scoreVars, diffVars, hist, updates, opts, verdicts,
                   session, session_log>>

\* if fail_on_critical: criticals = ...; if criticals: raise SystemExit(2)
CliContract ==
    /\ cli.pc = "contract"
    /\ cli' = IF opts.fail_on_critical /\ criticals(verdicts) > 0 THEN Exit(cli, 2)
              ELSE Exit(cli, 0)
    /\ UNCHANGED <<gateVars, scanVars, scoreVars, diffVars, hist, updates, opts, verdicts,
                   session, session_log>>

\* A critical finding with an automatic fix, an informational one with
\* instructions, and a healthy check.
CliTemplates ==
    { t \in FixTemplates : t.fix_level \in {"auto", "instructions"} /\ t.fix_reversible }

InitCli ==
    /\ host = ScanHost
    /\ opts \in [as_json : BOOLEAN, quiet : BOOLEAN, fix : BOOLEAN, auto : BOOLEAN,
                 dry_run : BOOLEAN, fail_on_critical : BOOLEAN]
    /\ cli = cli_entry
    /\ verdicts \in VerdictLists(CliTemplates)
    /\ session = [pc |-> "idle"]
    /\ session_log = <<>>
    /\ IdleGate /\ IdleScan /\ IdleScore /\ IdleDiff /\ IdleHist /\ IdleUpdates

NextCli ==
    \/ CliValidate
    \/ CliCollect
    \/ CliPrompt
    \/ CliScan
    \/ CliOutput
    \/ CliFixReturn
    \/ CliContract
    \/ FixStart
    \/ FixCard
    \/ FixMenu
    \/ FixDispatch
    \/ FixSummary
    \/ AutoStart
    \/ AutoDispatch
    \/ AutoSummary

SpecCli == InitCli /\ [][NextCli]_vars

(***************************************************************************)
(* history.py: save_scan, prune_history, load_previous_scan.               *)
(* The history directory is a set of files, each a name and a text.  A     *)
(* file is named after the UTC second of its save ("%Y-%m-%dT%H-%M-%S":    *)
(* fixed width, so the order of the names is the order of the seconds),    *)
(* and the second is kept as the name.  The clock never runs backwards.    *)
(* A payload carries its scan_time, which has microsecond resolution and   *)
(* tells two scans of one second apart.  unlink is taken to succeed: it    *)
(* needs the permission the write before it had.                           *)
(***************************************************************************)
_MAX_SCANS == 10

\* SpecHistory: at most MaxSaves save_scan calls.
MaxSaves == 11

\* json.dumps(payload, indent=2) and json.loads
json_dumps(payload) == <<"json", payload.schema_version, payload.scan_time>>

json_loads(text) == [schema_version |-> text[2], scan_time |-> text[3]]

\* _build_payload: the n-th snapshot, of a scan that ended in second t
_build_payload(t, n) == [schema_version |-> 1, scan_time |-> <<t, n>>]

\* sorted(_HISTORY_DIR.glob("*.json")): the names in ascending order
RECURSIVE sorted_names(_)
sorted_names(names) ==
    IF names = {} THEN <<>>
    ELSE LET first == CHOOSE x \in names : \A y \in names : x <= y
         IN  <<first>> \o sorted_names(names \ {first})

\* path.write_text(text): creates the file or replaces its content
write_text(files, name, text) ==
    { f \in files : f.name # name } \cup { [name |-> name, text |-> text] }

\* for old in files[:-_MAX_SCANS]: old.unlink()
prune_history(files) ==
    LET sorted == sorted_names({ f.name : f \in files })
        n_old  == IF Len(sorted) > _MAX_SCANS THEN Len(sorted) - _MAX_SCANS ELSE 0
        old    == { sorted[k] : k \in 1..n_old }
    IN  { f \in files : f.name \notin old }

\* json.loads(files[-1].read_text()), None for an empty directory
load_previous_scan(files) ==
    IF files = {} THEN None
    ELSE LET sorted == sorted_names({ f.name : f \in files })
             last   == CHOOSE f \in files : f.name = sorted[Len(sorted)]
         IN  json_loads(last.text)

InitHistory ==
    /\ host = ScanHost
    /\ hist = [files |-> {}, clock |-> 1, saved |-> <<>>,
               returned |-> None, loaded |-> <<>>]
    /\ IdleGate /\ IdleScan /\ IdleScore /\ IdleDiff /\ IdleCli /\ IdleUpdates

\* the clock reaches a later second; a second in which nothing was saved
\* leaves no trace and is not told apart from the one before it
Tick ==
    /\ hist.clock < MaxSaves
    /\ \E k \in 1..Len(hist.saved) : hist.saved[k].scan_time[1] = hist.clock
    /\ hist' = [hist EXCEPT !.clock = @ + 1]
    /\ UNCHANGED <<gateVars, scanVars, scoreVars, diffVars, cliVars, updates>>

\* save_scan(results): the write succeeds, or raises OSError and None is
\* returned before anything is pruned
SaveScan ==
    /\ Len(hist.saved) < MaxSaves
    /\ \E written \in BOOLEAN :
          LET payload == _build_payload(hist.clock, Len(hist.saved) + 1)
          IN  IF written
              THEN hist' = [hist EXCEPT
                              !.files = prune_history(
                                            write_text(@, hist.clock, json_dumps(payload))),
                              !.saved = Append(@, payload),
                              !.returned = PyInt(hist.clock),
                              !.loaded = <<>>]
              ELSE hist' = [hist EXCEPT !.returned = None, !.loaded = <<>>]
    /\ UNCHANGED <<gateVars, scanVars, scoreVars, diffVars, cliVars, updates>>

\* load_previous_scan(); hist.loaded holds what the last call since the
\* last save returned, <<>> when there was none
LoadPreviousScan ==
    /\ hist.loaded = <<>>
    /\ hist' = [hist EXCEPT !.loaded = <<load_previous_scan(hist.files)>>]
    /\ UNCHANGED <<gateVars, scanVars, scoreVars, diffVars, cliVars, updates>>

NextHistory == Tick \/ SaveScan \/ LoadPreviousScan

SpecHistory == InitHistory /\ [][NextHistory]_vars

(***************************************************************************)
(* checks/system.py: _fetch_software_updates and its two callers,          *)
(* MacOSVersionCheck.run and PendingUpdatesCheck.run, within one scan.     *)
(* functools.lru_cache looks the key up, calls the function on a miss      *)
(* without holding a lock, and stores the result unless the key has been   *)
(* stored meanwhile; the caller gets the result of its own call.  In       *)
(* silent mode the two checks run one after the other on the calling       *)
(* thread; in narrated mode each runs on a pool worker, the workers taking *)
(* the submitted calls in submission order.                                *)
(***************************************************************************)
\* ALL_CHECKS order of the two callers
UpdateCallers == <<"macos_version", "pending_updates">>

\* What one run of `softwareupdate -l` can yield: (returncode, output)
UpdateOutcomes ==
    { <<0, "No new software available.">>,
      <<0, "* Label: macOS 14.3">>,
      <<-1, "TIMEOUT: softwareupdate took too long">>,
      <<-1, "NOTFOUND: softwareupdate not available">> }

\* r = subprocess.run(["softwareupdate", "-l"], ...)
softwareupdate_l(outcome) == [argv |-> <<"softwareupdate", "-l">>, result |-> outcome]

\* lru_cache, after the call: the key is stored unless it was stored during
\* the call
cache_store(cache, result) == IF cache = None THEN [cached |-> result] ELSE cache

InitUpdates ==
    /\ host = ScanHost
    /\ \E q \in BOOLEAN :
          updates = [quiet |-> q, runs |-> 0, commands |-> <<>>, cache |-> None,
                     caller |-> [k \in 1..2 |-> [pc |-> "queued", result |-> None,
                                                 value |-> None]]]
    /\ IdleGate /\ IdleScan /\ IdleScore /\ IdleDiff /\ IdleCli /\ IdleHist

\* check.execute() of caller k begins: on the calling thread after the check
\* before it has returned (silent), on a pool worker once the call submitted
\* before it has been taken (narrated)
UpdateBegin(k) ==
    /\ updates.caller[k].pc = "queued"
    /\ \A j \in 1..(k - 1) :
          IF updates.quiet THEN updates.caller[j].pc = "done"
                           ELSE updates.caller[j].pc # "queued"
    /\ updates' = [updates EXCEPT !.caller[k].pc = "lookup"]
    /\ UNCHANGED <<gateVars, scanVars, scoreVars, diffVars, cliVars, hist>>

\* rc, output = _fetch_software_updates(): the cache lookup, a hit returns
\* the cached value
UpdateLookup(k) ==
    /\ updates.caller[k].pc = "lookup"
    /\ IF updates.cache # None
       THEN updates' = [updates EXCEPT !.caller[k].pc = "done",
                                       !.caller[k].value = updates.cache.cached]
       ELSE updates' = [updates EXCEPT !.caller[k].pc = "call"]
    /\ UNCHANGED <<gateVars, scanVars, scoreVars, diffVars, cliVars, hist>>

\* the body of _fetch_software_updates: the command runs
UpdateRun(k) ==
    /\ updates.caller[k].pc = "call"
    /\ \E outcome \in UpdateOutcomes :
          LET run == softwareupdate_l(outcome)
          IN  updates' = [updates EXCEPT !.runs = @ + 1,
                                         !.commands = Append(@, run.argv),
                                         !.caller[k].pc = "store",
                                         !.caller[k].result = run.result]
    /\ UNCHANGED <<gateVars, scanVars, scoreVars, diffVars, cliVars, hist>>

\* lru_cache stores the result and returns it to the caller
UpdateStore(k) ==
    /\ updates.caller[k].pc = "store"
    /\ updates' = [updates EXCEPT !.cache = cache_store(@, updates.caller[k].result),
                                  !.caller[k].pc = "done",
                                  !.caller[k].value = updates.caller[k].result]
    /\ UNCHANGED <<gateVars, scanVars, scoreVars, diffVars, cliVars, hist>>

NextUpdates ==
    \/ \E k \in 1..2 : UpdateBegin(k)
    \/ \E k \in 1..2 : UpdateLookup(k)
    \/ \E k \in 1..2 : UpdateRun(k)
    \/ \E k \in 1..2 : UpdateStore(k)

SpecUpdates == InitUpdates /\ [][NextUpdates]_vars

(***************************************************************************)
(* Claims about the gate (SpecGate).                                       *)
(***************************************************************************)
\* The three applicability predicates of the running call, stated on the inputs.
VersionOK == ~TupleLess(host.macos, check.min_macos)
ToolOK    == check.requires_tool = "" \/ check.requires_tool \in host.tools
ArchOK    == check.apple_silicon_compatible \/ ~host.silicon

GateOrder == <<"version", "tool", "arch">>

GateDone == gate.pc = "done"

\* C1: when the three applicability predicates pass and the probe body raises,
\* execute returns (no exception leaves it) a verdict of status error whose
\* message holds the check's id and the fault text.
C1_ProbeFaultYieldsError ==
    (GateDone /\ VersionOK /\ ToolOK /\ ArchOK /\ check.probe.kind = "raise") =>
        /\ gate.outcome.kind = "verdict"
        /\ gate.outcome.verdict.status = "error"
        /\ gate.outcome.verdict.message.fmt = "Unexpected error in {}: {}"
        /\ \E i \in DOMAIN gate.outcome.verdict.message.args :
               gate.outcome.verdict.message.args[i] = check.id
        /\ \E i \in DOMAIN gate.outcome.verdict.message.args :
               gate.outcome.verdict.message.args[i] = check.probe.text

C1_Witness ==
    /\ GateDone /\ VersionOK /\ ToolOK /\ ArchOK
    /\ check.probe.kind = "raise"
    /\ check.probe.cls = "RuntimeError"
    /\ gate.ran /\ gate.caught
    /\ gate.outcome.kind = "verdict"
    /\ gate.outcome.verdict.status = "error"

\* The reason of the predicate at position i of GateOrder.
SkipFormatOf(i) ==
    CASE i = 1 -> "Requires macOS {}.{}+"
      [] i = 2 -> "{} not installed"
      [] i = 3 -> "Not compatible with Apple Silicon"

PredicateOK(i) ==
    CASE i = 1 -> VersionOK
      [] i = 2 -> ToolOK
      [] i = 3 -> ArchOK

\* C5: the predicates are evaluated in the order version, tool, architecture;
\* the skip verdict names the first failing one, no predicate after it is
\* evaluated, and run() is invoked only when all three pass.
C5_GateOrderShortCircuits ==
    /\ gate.pc # "idle" =>
          /\ Len(gate.evaluated) <= 3
          /\ gate.evaluated = SubSeq(GateOrder, 1, Len(gate.evaluated))
          /\ gate.ran => (VersionOK /\ ToolOK /\ ArchOK /\ gate.evaluated = GateOrder)
    /\ GateDone =>
          \A i \in 1..3 :
              (~PredicateOK(i) /\ \A j \in 1..(i - 1) : PredicateOK(j)) =>
                  /\ gate.evaluated = SubSeq(GateOrder, 1, i)
                  /\ ~gate.ran
                  /\ gate.outcome.kind = "verdict"
                  /\ gate.outcome.verdict.status = "skip"
                  /\ gate.outcome.verdict.message.fmt = SkipFormatOf(i)
    /\ (GateDone /\ VersionOK /\ ToolOK /\ ArchOK) => gate.ran

\* A check failing the version and the tool predicate at once has been skipped
\* for its version.
C5_Witness ==
    /\ GateDone
    /\ ~VersionOK /\ ~ToolOK
    /\ gate.evaluated = <<"version">>
    /\ gate.outcome.verdict.message.fmt = "Requires macOS {}.{}+"

\* C6: every skip or error verdict the gate itself produces (a failed predicate
\* or a caught probe fault) has fix_level none and is not offered to the fix
\* session.
C6_GateVerdictsCarryNoFix ==
    (GateDone /\ gate.outcome.kind = "verdict" /\ (~gate.ran \/ gate.caught)) =>
        /\ gate.outcome.verdict.status \in {"skip", "error"}
        /\ gate.outcome.verdict.fix_level = "none"
        /\ ~fixable(gate.outcome.verdict)

(***************************************************************************)
(* Claims about the scan loop (Spec).                                      *)
(***************************************************************************)
\* The applicability predicates of check c on host h, stated on the inputs.
Applicable(c, h) ==
    /\ ~TupleLess(h.macos, c.min_macos)
    /\ (c.requires_tool = "" \/ c.requires_tool \in h.tools)
    /\ (c.apple_silicon_compatible \/ ~h.silicon)

Faults(c, h) == Applicable(c, h) /\ c.probe.kind = "raise"

\* The status check c is due: skip when not applicable, error when its probe
\* faults, the probe's own status otherwise.
DueStatus(c, h) ==
    IF ~Applicable(c, h) THEN "skip"
    ELSE IF c.probe.kind = "raise" THEN "error"
    ELSE c.probe.status

ScanDone == pc = "done"

\* C2: no probe fault ends the scan: _run_checks never raises, in silent and
\* in narrated mode, and what it returns holds one verdict per submitted
\* check: an error verdict for each faulting check, its own verdict for every
\* other check.
C2_ScanSurvivesFaults ==
    /\ pc # "raised"
    /\ ScanDone =>
          /\ Len(returned) = Len(checks)
          /\ \A i \in 1..Len(checks) :
                /\ returned[i] # None
                /\ returned[i].id = checks[i].id
                /\ returned[i].status = DueStatus(checks[i], host)
                /\ Faults(checks[i], host) => returned[i].status = "error"

C2_Witness ==
    /\ ScanDone
    /\ ~quiet
    /\ \E i, j \in 1..Len(checks) :
          /\ Faults(checks[i], host) /\ returned[i].status = "error"
          /\ ~Faults(checks[j], host) /\ returned[j].status = "critical"

\* C3: the returned list has one element per submitted check and its i-th
\* element is the verdict of the i-th check, whatever the completion order;
\* the empty list is returned for no checks.
C3_ReturnInInputOrder ==
    ScanDone =>
        /\ Len(returned) = Len(checks)
        /\ \A i \in 1..Len(checks) :
              /\ returned[i] = execute(checks[i], host).verdict
              /\ returned[i].id = CheckId(i)
        /\ Len(checks) = 0 => returned = <<>>

\* A narrated scan whose last check completed first.
C3_Witness ==
    /\ ScanDone
    /\ ~quiet
    /\ Len(checks) >= 2
    /\ yield_order[1] = Len(checks) - 1
    /\ \A i \in 1..Len(checks) : returned[i].id = CheckId(i)

\* C4: what the narration sink has received is always a prefix of the
\* submission order, nothing twice and nothing skipped, and it is the whole
\* submission order once a narrated scan has returned.
C4_NarrationInSubmissionOrder ==
    /\ Len(printed) = next_to_print
    /\ Len(printed) <= Len(checks)
    /\ \A k \in 1..Len(printed) :
          /\ printed[k] # None
          /\ printed[k].id = checks[k].id
    /\ (ScanDone /\ ~quiet) => next_to_print = Len(checks)

\* A verdict that completed first was held back until the checks before it
\* had been narrated.
C4_Witness ==
    /\ ScanDone
    /\ ~quiet
    /\ Len(checks) >= 2
    /\ yield_order[1] # 0
    /\ Len(printed) = Len(checks)
    /\ \A k \in 1..Len(printed) : printed[k].id = checks[k].id

(***************************************************************************)
(* Claims about the health score (SpecScore).                              *)
(***************************************************************************)
\* The deduction the claim assigns to one verdict.
ClaimedDeduction(v) ==
    CASE v.status = "critical" /\ v.category \in {"system", "security", "privacy"} -> 15
      [] v.status = "critical" /\ v.category \notin {"system", "security", "privacy"} -> 10
      [] v.status = "warning" -> 3
      [] OTHER -> 0

RECURSIVE TotalDeduction(_)
TotalDeduction(cs) ==
    IF cs = <<>> THEN 0 ELSE ClaimedDeduction(Head(cs)) + TotalDeduction(Tail(cs))

Scored == score_pc \in {"scored", "rescored"}

C8_ScoreWithinRange ==
    Scored =>
        /\ score.value \in 0..100
        /\ TotalDeduction(score_checks) >= 100 => score.value = 0

\* 20 critical high-impact verdicts (300 points) score 0.
C8_Witness ==
    /\ Scored
    /\ Len(score_checks) = 20
    /\ \A i \in 1..20 : score_checks[i] = [status |-> "critical", category |-> "security"]
    /\ TotalDeduction(score_checks) = 300
    /\ score.value = 0

\* C9: the score of a list does not change when the list is handed over in
\* another order, also when the running total falls below 0 part-way.
C9_ScoreOrderIndependent ==
    Scored => score = first_score

\* A reordered list whose first seven verdicts already deduct more than 100.
C9_Witness ==
    /\ score_pc = "rescored"
    /\ Len(score_checks) = 8
    /\ TotalDeduction(SubSeq(score_checks, 1, 7)) > 100
    /\ score_checks[8] # score_checks[1]
    /\ score = first_score

(***************************************************************************)
(* Claims about the diff (SpecDiff).                                       *)
(***************************************************************************)
\* The status payload p reports for id, "absent" when it does not list it.
StatusIn(p, id) ==
    IF \E k \in DOMAIN p.results : p.results[k].id = id
    THEN (p.results[CHOOSE k \in DOMAIN p.results : p.results[k].id = id]).status
    ELSE "absent"

\* Same schema_version, same score, same ids and the same status for every id.
SameFindings(p, q) ==
    /\ p.schema_version = q.schema_version
    /\ p.score = q.score
    /\ \A id \in DiffIds : StatusIn(p, id) = StatusIn(q, id)

\* C10: compute_diff(S, S) is None; more generally it is None for two payloads
\* of the same schema_version, score, ids and per-id status, whatever their
\* scan_time and messages.
C10_NoChangeNoDiff ==
    (diff.called /\ (current = previous \/ SameFindings(current, previous))) =>
        diff.value = None

\* Two payloads that differ in scan_time and in every message, and nothing else.
C10_Witness ==
    /\ diff.called
    /\ current # previous
    /\ current.scan_time # previous.scan_time
    /\ SameFindings(current, previous)
    /\ Len(current.results) = NumDiffIds
    /\ Len(previous.results) = NumDiffIds
    /\ \A k \in 1..NumDiffIds :
          current.results[k].message # previous.results[k].message
    /\ diff.value = None

\* The ids a payload lists.
IdsIn(p) == { id \in DiffIds : StatusIn(p, id) # "absent" }

\* The message payload p carries for id.
MessageIn(p, id) ==
    (p.results[CHOOSE k \in DOMAIN p.results : p.results[k].id = id]).message

\* Whether a list of the diff has an entry for id.
Listed(list, id) == \E k \in DOMAIN list : list[k].id = id

\* The ids a list of the diff has entries for.
ListedIds(list) == { list[k].id : k \in DOMAIN list }

\* The severity order the specification states: pass < info < skip < warning <
\* error < critical.
SeverityOrder == <<"pass", "info", "skip", "warning", "error", "critical">>

RankOf(status) == CHOOSE i \in DOMAIN SeverityOrder : SeverityOrder[i] = status

\* NEW, REM and T of the specification, and whether (|NEW| + |REM|) / T > 0.5.
NewIds == IdsIn(current) \ IdsIn(previous)

RemovedIds == IdsIn(previous) \ IdsIn(current)

TotalIds == Max(Max(Cardinality(IdsIn(previous)), Cardinality(IdsIn(current))), 1)

RatioOverHalf == 2 * (Cardinality(NewIds) + Cardinality(RemovedIds)) > TotalIds

\* C11: compute_diff returns None whenever the two schema_version values
\* differ, a payload without the field included, whatever the scores and
\* results are.
C11_SchemaMismatchNoDiff ==
    (diff.called /\ current.schema_version # previous.schema_version) =>
        diff.value = None

\* A current payload without schema_version, of another score and with a
\* regressed check: still no diff.
C11_Witness ==
    /\ diff.called
    /\ current.schema_version = None
    /\ previous.schema_version # None
    /\ current.score # previous.score
    /\ \E id \in IdsIn(current) \cap IdsIn(previous) :
          RankOf(StatusIn(current, id)) > RankOf(StatusIn(previous, id))
    /\ diff.value = None

\* C12: in every diff that is not None, an id present in both payloads is in
\* improved exactly when its current status ranks strictly lower than its
\* previous one, in regressed exactly when it ranks strictly higher, in neither
\* when the ranks are equal; its entry carries the previous status as
\* before_status, and the current status and message.
C12_ImprovedRegressedBySeverity ==
    (diff.called /\ diff.value # None) =>
        \A id \in IdsIn(current) \cap IdsIn(previous) :
            LET before == StatusIn(previous, id)
                after  == StatusIn(current, id)
                d      == diff.value
            IN  /\ Listed(d.improved, id) <=> RankOf(after) < RankOf(before)
                /\ Listed(d.regressed, id) <=> RankOf(after) > RankOf(before)
                /\ RankOf(after) = RankOf(before) =>
                      ~Listed(d.improved, id) /\ ~Listed(d.regressed, id)
                /\ \A k \in DOMAIN (d.improved \o d.regressed) :
                      LET entry == (d.improved \o d.regressed)[k]
                      IN  entry.id = id =>
                              /\ entry.before_status = before
                              /\ entry.after_status = after
                              /\ entry.message = MessageIn(current, id)

\* One check went from skip to info, and the new and removed lists were
\* suppressed: the check is still listed as improved.
C12_Witness ==
    /\ diff.called
    /\ diff.value # None
    /\ StatusIn(previous, CheckId(1)) = "skip"
    /\ StatusIn(current, CheckId(1)) = "info"
    /\ RatioOverHalf
    /\ Listed(diff.value.improved, CheckId(1))
    /\ diff.value.new_checks = <<>>

\* C13: in every diff that is not None, new_checks lists exactly NEW and
\* removed_checks exactly REM when (|NEW| + |REM|) / T <= 0.5, and both are
\* empty when the ratio is above 0.5.
C13_NewRemovedOrSuppressed ==
    (diff.called /\ diff.value # None) =>
        IF RatioOverHalf
        THEN /\ diff.value.new_checks = <<>>
             /\ diff.value.removed_checks = <<>>
        ELSE /\ ListedIds(diff.value.new_checks) = NewIds
             /\ Len(diff.value.new_checks) = Cardinality(NewIds)
             /\ ListedIds(diff.value.removed_checks) = RemovedIds
             /\ Len(diff.value.removed_checks) = Cardinality(RemovedIds)

\* A ratio of exactly one half: one of two checks was removed, and it is listed.
C13_Witness ==
    /\ diff.called
    /\ diff.value # None
    /\ Cardinality(IdsIn(previous)) = 2
    /\ Cardinality(RemovedIds) = 1
    /\ NewIds = {}
    /\ ListedIds(diff.value.removed_checks) = RemovedIds

\* The ratio is above one half: both lists are empty although NEW and REM are not.
C13_WitnessSuppressed ==
    /\ diff.called
    /\ diff.value # None
    /\ RatioOverHalf
    /\ NewIds # {}
    /\ RemovedIds # {}
    /\ diff.value.new_checks = <<>>
    /\ diff.value.removed_checks = <<>>

\* Whether some id of both payloads changed its rank.
SomeRankChanged ==
    \E id \in IdsIn(current) \cap IdsIn(previous) :
        RankOf(StatusIn(current, id)) # RankOf(StatusIn(previous, id))

\* C14: for equal schema_version, compute_diff returns None exactly when the
\* score delta is 0 and improved, regressed, new and removed (after the
\* suppression) are all empty; a result that is not None reports a delta other
\* than 0 or lists at least one check.
C14_NoneIffNothingChanged ==
    (diff.called /\ current.schema_version = previous.schema_version) =>
        /\ diff.value = None <=>
              /\ get_score(current) - get_score(previous) = 0
              /\ ~SomeRankChanged
              /\ (RatioOverHalf \/ (NewIds = {} /\ RemovedIds = {}))
        /\ diff.value # None =>
              \/ diff.value.score_delta # 0
              \/ Len(diff.value.improved) + Len(diff.value.regressed)
                   + Len(diff.value.new_checks) + Len(diff.value.removed_checks) > 0

\* Only the score changed: the diff is reported, with four empty lists.
C14_Witness ==
    /\ diff.called
    /\ current.schema_version = previous.schema_version
    /\ get_score(current) # get_score(previous)
    /\ ~SomeRankChanged
    /\ NewIds = {} /\ RemovedIds = {}
    /\ diff.value # None
    /\ diff.value.improved = <<>>
    /\ diff.value.regressed = <<>>

(***************************************************************************)
(* Claims about runaway checks (SpecHang).                                 *)
(***************************************************************************)
\* C16: every check execution is bounded by a per-check timeout of the gate,
\* so _run_checks eventually returns for every probe behaviour, a probe body
\* that never returns included.
C16_ScanEventuallyReturns == <>(pc = "done")

(***************************************************************************)
(* Claims about _dispatch (SpecDispatch).                                  *)
(***************************************************************************)
\* The executor the specification assigns to a fix level.
ExecutorOfLevel(level) ==
    CASE level = "auto"         -> <<"run_auto_fix">>
      [] level = "auto_sudo"    -> <<"run_auto_sudo_fix">>
      [] level = "guided"       -> <<"run_guided_fix">>
      [] level = "instructions" -> <<"run_instructions_fix">>
      [] OTHER                  -> <<>>

\* C17: _dispatch runs exactly the executor of the verdict's fix_level (auto,
\* auto_sudo, guided, instructions), whatever the status, requires_sudo and the
\* other fields are; for fix_level none or an unknown level it runs no executor
\* and returns failure.
C17_DispatchByFixLevel ==
    \A k \in DOMAIN session_log :
        session_log[k].kind = "dispatch" =>
            LET r == verdicts[session_log[k].idx]
            IN  /\ session_log[k].executors = ExecutorOfLevel(r.fix_level)
                /\ r.fix_level \in {"auto", "auto_sudo", "guided", "instructions"} =>
                      Len(session_log[k].executors) = 1
                /\ r.fix_level \notin {"auto", "auto_sudo", "guided", "instructions"} =>
                      /\ session_log[k].executors = <<>>
                      /\ session_log[k].returned = FALSE

\* A passing verdict of level auto that requires sudo went to run_auto_fix.
C17_Witness ==
    /\ session.pc = "returned"
    /\ verdicts[1].fix_level = "auto"
    /\ verdicts[1].requires_sudo
    /\ verdicts[1].status = "pass"
    /\ session_log[1].executors = <<"run_auto_fix">>
    /\ session_log[1].returned

\* A verdict of a level the map does not know: no executor, failure.
C17_WitnessUnknownLevel ==
    /\ session.pc = "returned"
    /\ verdicts[1].fix_level = "manual"
    /\ session_log[1].executors = <<>>
    /\ ~session_log[1].returned

(***************************************************************************)
(* Claims about the fix session (SpecFix).                                 *)
(***************************************************************************)
\* The positions of the log that hold an event of the given kind.
EventsOf(kind) == { k \in DOMAIN session_log : session_log[k].kind = kind }

\* The verdict of the scan that carries id.
VerdictOf(id) == verdicts[CHOOSE i \in DOMAIN verdicts : verdicts[i].id = id]

\* C18: a privileged fix cancelled at the authentication prompt and one whose
\* command ran and failed are told apart by what run_auto_sudo_fix returns;
\* both count as not applied, and neither raises.
C18_CancelDistinctFromFailure ==
    \A i, j \in EventsOf("dispatch") :
        ( /\ session_log[i].executors = <<"run_auto_sudo_fix">>
          /\ session_log[j].executors = <<"run_auto_sudo_fix">>
          /\ session_log[i].env = "user_canceled"
          /\ session_log[j].env = "exit_nonzero" ) =>
            /\ session_log[i].returned # session_log[j].returned
            /\ session_log[i].returned # TRUE
            /\ session_log[j].returned # TRUE

\* The affirmative entry of the menu shown for an item of the given level:
\* "Yes, apply" (index 1) for auto and auto_sudo, "Continue" (index 0) for
\* guided and instructions.
Affirmative(fix_level, choice) ==
    IF fix_level \in {"auto", "auto_sudo"} THEN choice = PyInt(1) ELSE choice = PyInt(0)

\* C19: in interactive mode an item is dispatched only after its card was
\* shown and the operator then chose the affirmative entry for that item; an
\* item whose choice was skip, Quit or none is never dispatched.
C19_DispatchOnlyAfterConfirmation ==
    (opts # None /\ ~opts.auto) =>
        /\ \A d \in EventsOf("dispatch") :
              \E c \in EventsOf("choice") :
                  /\ c < d
                  /\ session_log[c].idx = session_log[d].idx
                  /\ session_log[c].id = session_log[d].id
                  /\ Affirmative(VerdictOf(session_log[d].id).fix_level,
                                 session_log[c].choice)
                  /\ \E p \in EventsOf("card") :
                        p < c /\ session_log[p].idx = session_log[d].idx
        /\ \A c \in EventsOf("choice") :
              ~Affirmative(VerdictOf(session_log[c].id).fix_level, session_log[c].choice) =>
                  \A d \in EventsOf("dispatch") : session_log[d].idx # session_log[c].idx

\* Entry 0 was chosen twice: it skipped the auto item and dispatched the
\* guided one.
C19_Witness ==
    /\ opts # None /\ ~opts.auto /\ ~opts.dry_run
    /\ session.pc = "done"
    /\ \E c1, c2 \in EventsOf("choice") :
          /\ session_log[c1].choice = PyInt(0)
          /\ session_log[c2].choice = PyInt(0)
          /\ VerdictOf(session_log[c1].id).fix_level = "auto"
          /\ VerdictOf(session_log[c2].id).fix_level = "guided"
          /\ \E d \in EventsOf("dispatch") : session_log[d].id = session_log[c2].id
          /\ \A d \in EventsOf("dispatch") : session_log[d].id # session_log[c1].id

\* Whether a choice ends the session: Quit (index 2), or no choice.
Cancels(choice) == choice = None \/ choice = PyInt(2)

\* C20: once the operator cancels at item k, no item at position k or later
\* is dispatched and no later item is presented; the session ends with the
\* summary, which still counts the fixes applied before the cancel.
C20_CancelEndsSession ==
    (opts # None /\ ~opts.auto) =>
        \A c \in EventsOf("choice") :
            Cancels(session_log[c].choice) =>
                /\ \A d \in EventsOf("dispatch") : session_log[d].idx < session_log[c].idx
                /\ \A p \in EventsOf("card") : session_log[p].idx <= session_log[c].idx
                /\ session.pc = "done"
                /\ Len(session_log) = c + 1
                /\ session_log[c + 1].kind = "summary"
                /\ ~opts.dry_run =>
                      session_log[c + 1].applied =
                          Cardinality({ d \in EventsOf("dispatch") : session_log[d].returned })

\* The first fix was applied, the second item was left without a choice: the
\* summary counts one applied fix and nothing followed.
C20_Witness ==
    /\ opts # None /\ ~opts.auto /\ ~opts.dry_run
    /\ session.pc = "done"
    /\ Len(session_log) = 7
    /\ session_log[4].kind = "dispatch"
    /\ session_log[4].returned
    /\ session_log[6].kind = "choice"
    /\ session_log[6].idx = 2
    /\ session_log[6].choice = None
    /\ session_log[7].kind = "summary"
    /\ session_log[7].applied = 1
    /\ session_log[7].total = 2

(***************************************************************************)
(* Claims about the exit code (SpecCli).                                   *)
(***************************************************************************)
\* C15: with --fail-on-critical, a run whose scan completed exits with code 2
\* exactly when a verdict of the scan is critical, in the narrated, the
\* --quiet and the --json output mode alike, and whether or not fix mode ran.
C15_FailOnCriticalInEveryMode ==
    (cli.pc = "exited" /\ cli.scanned /\ opts.fail_on_critical) =>
        /\ cli.exit_code = PyInt(2) <=>
              \E i \in DOMAIN verdicts : verdicts[i].status = "critical"
        /\ cli.exit_code \in {PyInt(0), PyInt(2)}

(***************************************************************************)
(* Claims about the modes of the fix session (SpecFix).                    *)
(***************************************************************************)
\* A verdict the fix session offers, as the specification words it.
IsFixable(r) ==
    /\ r.status \in {"critical", "warning", "error", "info"}
    /\ r.fix_level \in {"auto", "auto_sudo", "guided", "instructions"}

\* The ids of the verdicts auto-apply may touch.
SafeIds ==
    { verdicts[i].id : i \in { k \in DOMAIN verdicts :
        /\ IsFixable(verdicts[k])
        /\ verdicts[k].fix_level = "auto"
        /\ verdicts[k].fix_reversible
        /\ ~verdicts[k].requires_sudo } }

SessionDone == session.pc = "done"

\* C21: in auto-apply mode without dry-run the verdicts dispatched are exactly
\* the fixable ones with fix_level auto, fix_reversible and no requires_sudo,
\* each once and without a confirmation; nothing of another level, nothing
\* irreversible and nothing that requires sudo is dispatched.
C21_AutoModeDispatchesSafeOnly ==
    (opts # None /\ opts.auto /\ ~opts.dry_run) =>
        /\ EventsOf("choice") = {}
        /\ EventsOf("card") = {}
        /\ \A d \in EventsOf("dispatch") :
              /\ session_log[d].id \in SafeIds
              /\ session_log[d].executors = <<"run_auto_fix">>
              /\ \A e \in EventsOf("dispatch") :
                    session_log[e].id = session_log[d].id => e = d
        /\ SessionDone =>
              { session_log[d].id : d \in EventsOf("dispatch") } = SafeIds

\* An auto session over a safe fix and an irreversible automatic one: only
\* the safe one was dispatched.
C21_Witness ==
    /\ opts # None /\ opts.auto /\ ~opts.dry_run
    /\ SessionDone
    /\ Len(verdicts) = 2
    /\ verdicts[1].fix_level = "auto" /\ ~verdicts[1].fix_reversible
    /\ verdicts[1].status = "warning"
    /\ verdicts[2].id \in SafeIds
    /\ { session_log[d].id : d \in EventsOf("dispatch") } = {verdicts[2].id}

\* The ids of the verdicts the session offers.
FixableIds == { verdicts[i].id : i \in { k \in DOMAIN verdicts : IsFixable(verdicts[k]) } }

\* The choices of the log that confirm their item.
Confirmations ==
    { c \in EventsOf("choice") :
        Affirmative(VerdictOf(session_log[c].id).fix_level, session_log[c].choice) }

\* Whether the operator cancelled the session.
Cancelled == \E c \in EventsOf("choice") : Cancels(session_log[c].choice)

\* C22: with dry_run no executor is invoked, in interactive and in auto mode;
\* an interactive dry run still shows every fixable item and asks for its
\* confirmation, and the number it reports as would-be-applied is the number
\* of items the operator confirmed.
C22_DryRunNeverDispatches ==
    (opts # None /\ opts.dry_run) =>
        /\ EventsOf("dispatch") = {}
        /\ (~opts.auto /\ SessionDone /\ FixableIds # {}) =>
              /\ session_log[Len(session_log)].kind = "summary"
              /\ session_log[Len(session_log)].dry_run
              /\ session_log[Len(session_log)].applied = Cardinality(Confirmations)
              /\ ~Cancelled =>
                    /\ { session_log[p].id : p \in EventsOf("card") } = FixableIds
                    /\ { session_log[c].id : c \in EventsOf("choice") } = FixableIds

\* An interactive dry run over two fixable items: one confirmed, one skipped,
\* one reported as would-be-applied, nothing dispatched.
C22_Witness ==
    /\ opts # None /\ opts.dry_run /\ ~opts.auto
    /\ SessionDone
    /\ Cardinality(FixableIds) = 2
    /\ Cardinality(EventsOf("choice")) = 2
    /\ Cardinality(Confirmations) = 1
    /\ ~Cancelled
    /\ session_log[Len(session_log)].kind = "summary"
    /\ session_log[Len(session_log)].applied = 1
    /\ EventsOf("dispatch") = {}

\* The cards of the log, in the order they were shown.
Cards == SelectSeq(session_log, LAMBDA ev : ev.kind = "card")

\* The order the specification gives the statuses of fixable verdicts.
PresentationOrder == <<"critical", "warning", "error", "info">>

PresentationRank(id) ==
    CHOOSE i \in DOMAIN PresentationOrder : PresentationOrder[i] = VerdictOf(id).status

\* The position of a verdict in the scan's results.
ScanPosition(id) == CHOOSE i \in DOMAIN verdicts : verdicts[i].id = id

\* C23: interactive mode presents every fixable verdict exactly once, ordered
\* critical, warning, error, info, and verdicts of equal status in scan order.
C23_PresentedBySeverity ==
    (opts # None /\ ~opts.auto) =>
        /\ \A k \in DOMAIN Cards : Cards[k].id \in FixableIds
        /\ \A j, k \in DOMAIN Cards :
              j < k =>
                  /\ Cards[j].id # Cards[k].id
                  /\ PresentationRank(Cards[j].id) <= PresentationRank(Cards[k].id)
                  /\ PresentationRank(Cards[j].id) = PresentationRank(Cards[k].id) =>
                        ScanPosition(Cards[j].id) < ScanPosition(Cards[k].id)
        /\ (SessionDone /\ ~Cancelled) =>
              /\ { Cards[k].id : k \in DOMAIN Cards } = FixableIds
              /\ Len(Cards) = Cardinality(FixableIds)

\* The scan reported an error verdict before a warning: the warning was
\* presented first.
C23_Witness ==
    /\ opts # None /\ ~opts.auto
    /\ SessionDone /\ ~Cancelled
    /\ Len(verdicts) = 2
    /\ verdicts[1].status = "error"
    /\ verdicts[2].status = "warning"
    /\ Len(Cards) = 2
    /\ Cards[1].id = verdicts[2].id
    /\ Cards[2].id = verdicts[1].id

\* Two warnings: presented in scan order.
C23_WitnessScanOrder ==
    /\ opts # None /\ ~opts.auto
    /\ SessionDone /\ ~Cancelled
    /\ Len(verdicts) = 2
    /\ verdicts[1].status = "warning" /\ verdicts[2].status = "warning"
    /\ Len(Cards) = 2
    /\ Cards[1].id = verdicts[1].id
    /\ Cards[2].id = verdicts[2].id

(***************************************************************************)
(* Claims about the executors (SpecDispatch).                              *)
(***************************************************************************)
\* C24: run_instructions_fix returns success exactly when the verdict has a
\* fix step or a non-empty recommendation, printing the steps when there are
\* any and the recommendation only when there are none, and failure exactly
\* when both are absent; it returns a value in every case.
C24_InstructionsSuccessIffText ==
    \A d \in EventsOf("dispatch") :
        session_log[d].executors = <<"run_instructions_fix">> =>
            LET r == verdicts[session_log[d].idx]
            IN  /\ session_log[d].returned \in BOOLEAN
                /\ session_log[d].returned <=>
                      (r.fix_steps # <<>> \/ r.recommendation # "")
                /\ r.fix_steps # <<>> => session_log[d].console = "Steps to follow:"
                /\ (r.fix_steps = <<>> /\ r.recommendation # "") =>
                      session_log[d].console = r.recommendation
                /\ (r.fix_steps = <<>> /\ r.recommendation = "") =>
                      ~session_log[d].returned

\* No steps, a recommendation: success, and the recommendation was printed.
C24_Witness ==
    /\ session.pc = "returned"
    /\ verdicts[1].fix_level = "instructions"
    /\ verdicts[1].fix_steps = <<>>
    /\ verdicts[1].recommendation # ""
    /\ session_log[1].returned
    /\ session_log[1].console = verdicts[1].recommendation

\* Neither steps nor a recommendation: failure.
C24_WitnessNothing ==
    /\ session.pc = "returned"
    /\ verdicts[1].fix_level = "instructions"
    /\ verdicts[1].fix_steps = <<>>
    /\ verdicts[1].recommendation = ""
    /\ ~session_log[1].returned

\* C25: dispatching a guided or instructions verdict never executes its
\* fix_command, also when one is set: guided starts nothing but `open` on the
\* settings target or on System Settings, instructions starts nothing.
C25_GuidedAndInstructionsRunNoCommand ==
    \A d \in EventsOf("dispatch") :
        LET r == verdicts[session_log[d].idx]
        IN  /\ r.fix_level = "guided" =>
                  session_log[d].ran \in { <<>>, <<"open", r.fix_url>>,
                                           <<"open", "-a System Settings">> }
            /\ r.fix_level = "instructions" => session_log[d].ran = <<>>
            /\ r.fix_level \in {"guided", "instructions"} =>
                  (session_log[d].ran = <<>> \/ session_log[d].ran[1] = "open")

\* A guided verdict that carries a fix_command: only the pane was opened.
C25_Witness ==
    /\ session.pc = "returned"
    /\ verdicts[1].fix_level = "guided"
    /\ verdicts[1].fix_command # ""
    /\ verdicts[1].fix_url # ""
    /\ session_log[1].returned
    /\ session_log[1].ran = <<"open", verdicts[1].fix_url>>

FilledSlots == { k \in DOMAIN results : results[k] # None }

\* C27: in narrated mode the narrator's completed count is incremented once
\* for every completion the main thread processes, flushable or not: it
\* equals the number of filled result slots, it is never below the flush
\* cursor, and it equals the number of checks when the scan has returned.
C27_CompletedCountsFilledSlots ==
    ~quiet =>
        /\ completed = Cardinality(FilledSlots)
        /\ completed >= next_to_print
        /\ pc = "done" => completed = Len(checks)

\* a completion was counted although the slot at the cursor is still empty
C27_Witness ==
    /\ ~quiet
    /\ pc = "wait"
    /\ Len(results) >= 2
    /\ results[1] = None
    /\ next_to_print = 0
    /\ completed = 1

\* the scan returned with all completions counted
C27_WitnessReturned ==
    /\ ~quiet
    /\ pc = "done"
    /\ completed = MaxChecks
    /\ yield_order[1] # 0

\* C29: silent and narrated mode return the same value: whichever mode ran
\* and in whatever order the pool's calls completed, the list returned is the
\* list the sequential comprehension yields for the same checks.
C29_ModesReturnTheSameList ==
    ScanDone => returned = sequential_run(checks, host)

\* A narrated scan of a faulting, a skipped and a healthy check whose
\* completions were not yielded in submission order.
C29_Witness ==
    /\ ScanDone
    /\ ~quiet
    /\ Len(checks) = MaxChecks
    /\ \E k \in 1..Len(yield_order) : yield_order[k] # k - 1
    /\ \E i \in 1..Len(returned) : returned[i].status = "error"
    /\ \E i \in 1..Len(returned) : returned[i].status = "skip"
    /\ returned = sequential_run(checks, host)

\* The silent scan of the same kind of list.
C29_WitnessSilent ==
    /\ ScanDone
    /\ quiet
    /\ Len(checks) = MaxChecks
    /\ \E i \in 1..Len(returned) : returned[i].status = "error"
    /\ \E i \in 1..Len(returned) : returned[i].status = "skip"

\* The choices of the log that decide their item: every choice but a cancel.
Decided == { c \in EventsOf("choice") : ~Cancels(session_log[c].choice) }

FailedDispatches == { d \in EventsOf("dispatch") : ~session_log[d].returned }

\* C30: in an interactive session every decided item is counted once, as
\* applied or as skipped; a fix whose executor failed counts as skipped and
\* the items after it are still presented; the counts add up to the total
\* when the session ends without a cancel, and to the number of items
\* decided before the cancel, which is below the total, when it was cancelled.
C30_EveryDecidedItemCountedOnce ==
    (opts # None /\ ~opts.auto) =>
        /\ session.pc \in {"card", "menu", "dispatch"} =>
              /\ session.applied + session.skipped = Cardinality(Decided)
                    - (IF session.pc = "dispatch" THEN 1 ELSE 0)
              /\ session.skipped >= Cardinality(FailedDispatches)
        /\ \A d \in FailedDispatches :
              (session_log[d].idx < session_log[1].count) =>
                  /\ Len(session_log) = d => session.pc = "card"
                  /\ Len(session_log) > d =>
                        /\ session_log[d + 1].kind = "card"
                        /\ session_log[d + 1].idx = session_log[d].idx + 1
        /\ (SessionDone /\ FixableIds # {}) =>
              LET summary == session_log[Len(session_log)]
              IN  /\ summary.kind = "summary"
                  /\ summary.applied + summary.skipped = Cardinality(Decided)
                  /\ summary.applied =
                        Cardinality(Confirmations) - Cardinality(FailedDispatches)
                  /\ summary.skipped =
                        Cardinality(Decided \ Confirmations) + Cardinality(FailedDispatches)
                  /\ ~Cancelled => summary.applied + summary.skipped = summary.total
                  /\ Cancelled =>
                        /\ summary.applied + summary.skipped < summary.total
                        /\ \E c \in EventsOf("choice") :
                              /\ Cancels(session_log[c].choice)
                              /\ summary.applied + summary.skipped = session_log[c].idx - 1

\* The first fix failed, the second was still presented and applied.
C30_Witness ==
    /\ opts # None /\ ~opts.auto /\ ~opts.dry_run
    /\ SessionDone
    /\ ~Cancelled
    /\ Cardinality(FailedDispatches) = 1
    /\ session_log[Len(session_log)].kind = "summary"
    /\ session_log[Len(session_log)].applied = 1
    /\ session_log[Len(session_log)].skipped = 1
    /\ session_log[Len(session_log)].total = 2
    /\ session_log[4].kind = "dispatch"
    /\ ~session_log[4].returned

\* The first fix failed and the operator cancelled at the second item.
C30_WitnessCancelled ==
    /\ opts # None /\ ~opts.auto /\ ~opts.dry_run
    /\ SessionDone
    /\ Cancelled
    /\ Cardinality(FailedDispatches) = 1
    /\ session_log[Len(session_log)].kind = "summary"
    /\ session_log[Len(session_log)].applied = 0
    /\ session_log[Len(session_log)].skipped = 1
    /\ session_log[Len(session_log)].total = 2

(***************************************************************************)
(* Claims about the scan history (SpecHistory).                            *)
(***************************************************************************)
SnapshotsHeld == { json_loads(f.text) : f \in hist.files }

NewestSaved(k) ==
    { hist.saved[i] : i \in (Len(hist.saved) - k + 1)..Len(hist.saved) }

\* C26: after any sequence of successful save_scan calls the history holds at
\* most _MAX_SCANS snapshots, and the snapshots it holds are the most
\* recently saved ones; prune_history leaves a history within the limit as
\* it is; load_previous_scan returns the last snapshot saved.
C26_HistoryHoldsNewestSnapshots ==
    /\ Cardinality(hist.files) <= _MAX_SCANS
    /\ SnapshotsHeld = NewestSaved(Cardinality(hist.files))
    /\ prune_history(hist.files) = hist.files
    /\ hist.loaded # <<>> /\ hist.saved # <<>>
          => hist.loaded[1] = hist.saved[Len(hist.saved)]

(***************************************************************************)
(* Claims about the shared software update query (SpecUpdates).            *)
(***************************************************************************)
UpdatesDone == \A k \in 1..2 : updates.caller[k].pc = "done"

\* C28: during one scan `softwareupdate -l` is run at most once, although
\* both callers of _fetch_software_updates may run at the same time on
\* different pool workers; the second caller gets the first one's result.
C28_SoftwareUpdateQueriedOnce ==
    /\ updates.runs <= 1
    /\ UpdatesDone => updates.caller[2].value = updates.caller[1].value

====
